---- MODULE Spec2Model ----
(***************************************************************************)
(* Model of the conversational build assistant:                           *)
(*   - the ChatbotAnamnesis component (turn engine, location side-channel) *)
(*   - getLiveBuildResponse / parseJsonFromGeminiResponse /                *)
(*     preFilterComponents of the Gemini service                           *)
(*   - handleBuildUpdate of the build page                                 *)
(* React state is modelled with the value last set (the state variables)  *)
(* and the value of the last committed render (rendered), which is what    *)
(* the closures of event handlers and effects read.                        *)
(***************************************************************************)
EXTENDS Integers, Sequences, FiniteSets, TLC

VARIABLES
    messages,                    \* useState<ChatMessage[]>
    userInput,                   \* useState<string>, a sequence of characters
    isLoading,                   \* useState<boolean>, the busy flag
    preferencias,                \* useState<PreferenciaUsuarioInput>
    awaitingLocationPermission,  \* useState<boolean>
    locationProcessed,           \* useState<boolean>
    startTimer,                  \* the setTimeout of the start effect
    rendered,                    \* state as of the last committed render
    calls,                       \* getLiveBuildResponse promises still pending
    geo,                         \* position of handleAutoLocation
    turns,                       \* callLiveBuilder invocations so far
    lastOutcome,                 \* what the last settled oracle call settled with
    currentBuild,                \* BuildPage: useState<Build | null>
    pagePreferencias,            \* BuildPage: useState<PreferenciaUsuarioInput | null>
    isBuildComplete,             \* BuildPage: useState<boolean>
    apiKey,                      \* process.env.API_KEY is configured
    orphans,                     \* Preference Records sent with the calls of unmounted chats
    parserInput,                 \* text handed to parseJsonFromGeminiResponse
    parserResult,                \* what it returned
    filterComponents,            \* catalog handed to preFilterComponents
    filterBudget,                \* budget handed to preFilterComponents
    filterResult,                \* what it returned
    policyInput,                 \* record and history the question flow is applied to
    policyResult,                \* the question it selects
    warningsInput,               \* justification texts handed to handleBuildUpdate
    warningsResult,              \* the compatibility warnings it stores
    componentCache,              \* componentService: let componentCache
    catalogCalls,                \* the calls of getComponents and the uses of what they returned
    budgetCall,                  \* a budget as the oracle gave it and as getLiveBuildResponse returns it
    auth                         \* the page, the session storage and the route around a login

chatVars == <<messages, userInput, isLoading, preferencias, awaitingLocationPermission,
              locationProcessed, startTimer, rendered, calls, geo, turns, lastOutcome>>
pageVars == <<currentBuild, pagePreferencias, isBuildComplete>>
pureVars == <<parserInput, parserResult, filterComponents, filterBudget, filterResult,
              policyInput, policyResult, warningsInput, warningsResult>>
serviceVars == <<componentCache, catalogCalls, budgetCall, auth>>
vars == <<chatVars, pageVars, apiKey, orphans, pureVars, serviceVars>>

(***************************************************************************)
(* Bounds                                                                  *)
(***************************************************************************)
MaxTurns == 3        \* callLiveBuilder invocations in one conversation

(***************************************************************************)
(* JavaScript values                                                       *)
(***************************************************************************)
Undef == [t |-> "undefined", n |-> 0, s |-> <<>>]
Num(n) == [t |-> "number", n |-> n, s |-> <<>>]
Str(s) == [t |-> "string", n |-> 0, s |-> s]

\* JavaScript truthiness of a value (an empty string and 0 are falsy)
Truthy(v) == \/ v.t = "number" /\ v.n # 0
             \/ v.t = "string" /\ v.s # <<>>

\* String.prototype.trim on a sequence of characters
RECURSIVE TrimLeft(_)
TrimLeft(s) == IF s # <<>> /\ Head(s) = " " THEN TrimLeft(Tail(s)) ELSE s
RECURSIVE TrimRight(_)
TrimRight(s) == IF s # <<>> /\ s[Len(s)] = " " THEN TrimRight(SubSeq(s, 1, Len(s) - 1)) ELSE s
Trim(s) == TrimRight(TrimLeft(s))


(***************************************************************************)
(* Preference Record (PreferenciaUsuarioInput).  The nested sub-records    *)
(* carry def = FALSE when the object has no such key.  Amounts of money    *)
(* are counted in centavos.                                                *)
(***************************************************************************)
NoSub == [def |-> FALSE, v |-> Undef]
Sub(v) == [def |-> TRUE, v |-> v]

MkPrefs(orc, owned, perfil, amb) ==
    [orcamento |-> orc, ownedComponents |-> owned, perfilPC |-> perfil, ambiente |-> amb]

\* { perfilPC: {}, ambiente: {} }
EmptyPrefs == MkPrefs(Undef, Undef, Sub(Undef), Sub(Undef))

(***************************************************************************)
(* Chat messages: sender and text (a sequence of text fragments)           *)
(***************************************************************************)
Msg(sender, text) == [sender |-> sender, text |-> text]

GreetingText == <<"Ola! Sou o CodeTuga">>
AiReplyText == <<"resposta da IA">>
InvalidNotice == <<"A IA nao retornou uma resposta valida. Tente novamente.">>
RateLimitNotice == <<"Estou recebendo muitas solicitacoes no momento.">>
GenericNotice == <<"Desculpe, ocorreu um erro ao processar sua solicitacao.">>
AllowNotice == <<"Voce permitiu a deteccao.">>
LocationNotice == <<"Localizacao detectada">>
WeatherNotice == <<"Clima em">>
NoWeatherNotice == <<"Nao foi possivel obter os dados climaticos">>
NoLocationNotice == <<"Nao foi possivel detectar", " sua localizacao automaticamente.">>
AskCityText == <<"me diga em qual cidade e estado voce mora">>
DeclineNotice == <<"Usuario ", "nao permitiu deteccao automatica", ".">>
StartInput == <<"INICIAR_CONVERSA">>


(***************************************************************************)
(* Catalog of the conversation (availableComponents)                       *)
(***************************************************************************)
Comp(id, cat, preco) == [id |-> id, Categoria |-> cat, Preco |-> preco]

AvailableComponents ==
    << Comp("c1", "Processadores", 89900), Comp("c2", "SSD", 45900) >>

(***************************************************************************)
(* What the oracle call settles with: a rejection carrying an error, or    *)
(* a text whose JSON.parse result is a record of the fields read later.    *)
(***************************************************************************)
Err(code, str) == [code |-> code, str |-> str]
NoErr == Err(0, <<>>)

MkReply(parsed, text, prefs, ids, action, price, just) ==
    [parsed |-> parsed, aiResponseText |-> text, updatedPreferencias |-> prefs,
     recommendedComponentIds |-> ids, actionRequired |-> action,
     estimatedTotalPrice |-> price, justification |-> just]

NoIds == [t |-> "undefined", ids |-> <<>>]
Ids(ids) == [t |-> "array", ids |-> ids]
NoUpdate == [def |-> FALSE, v |-> EmptyPrefs]
Update(p) == [def |-> TRUE, v |-> p]

NoReply == MkReply("null", Undef, NoUpdate, NoIds, "none", Undef, Undef)

Outcome(kind, error, reply) == [kind |-> kind, error |-> error, reply |-> reply]
NoOutcome == Outcome("none", NoErr, NoReply)


(***************************************************************************)
(* getLiveBuildResponse: what follows the oracle call                      *)
(***************************************************************************)
DigitChars == <<"0", "1", "2", "3", "4", "5", "6", "7", "8", "9">>
IsDigit(c) == \E i \in 1..Len(DigitChars) : DigitChars[i] = c
DigitVal(c) == (CHOOSE i \in 1..Len(DigitChars) : DigitChars[i] = c) - 1

\* String.prototype.includes
Includes(s, sub) ==
    \E i \in 1..(Len(s) - Len(sub) + 1) : SubSeq(s, i, i + Len(sub) - 1) = sub

\* s.replace(',', '.'): only the first comma is replaced
ReplaceFirstComma(s) ==
    IF \E i \in 1..Len(s) : s[i] = ","
    THEN LET i == CHOOSE k \in 1..Len(s) : s[k] = "," /\ \A j \in 1..(k - 1) : s[j] # ","
         IN [s EXCEPT ![i] = "."]
    ELSE s

\* orcamentoAny.replace(/\./g, '').replace(',', '.').replace(/[^0-9.]/g, '')
CleanedString(s) ==
    LET IsNotDot(c) == c # "."
        IsNumericChar(c) == IsDigit(c) \/ c = "."
    IN  SelectSeq(ReplaceFirstComma(SelectSeq(s, IsNotDot)), IsNumericChar)

RECURSIVE DigitRun(_)
DigitRun(s) == IF s # <<>> /\ IsDigit(Head(s)) THEN <<Head(s)>> \o DigitRun(Tail(s)) ELSE <<>>

RECURSIVE DigitsValue(_)
DigitsValue(d) == IF d = <<>> THEN 0
                  ELSE DigitsValue(SubSeq(d, 1, Len(d) - 1)) * 10 + DigitVal(d[Len(d)])

\* parseFloat: the longest leading decimal literal, in centavos (two decimals kept)
ParseFloat(s) ==
    LET int == DigitRun(s)
        rest == SubSeq(s, Len(int) + 1, Len(s))
        frac == IF rest # <<>> /\ Head(rest) = "." THEN DigitRun(Tail(rest)) ELSE <<>>
        cent == (IF Len(frac) >= 1 THEN DigitVal(frac[1]) * 10 ELSE 0)
              + (IF Len(frac) >= 2 THEN DigitVal(frac[2]) ELSE 0)
    IN  IF int = <<>> /\ frac = <<>> THEN [nan |-> TRUE, n |-> 0]
        ELSE [nan |-> FALSE, n |-> DigitsValue(int) * 100 + cent]

\* lines 232-241: a truthy string budget is parsed, and deleted when it is NaN
NormalizeOrcamento(v) ==
    IF Truthy(v) /\ v.t = "string"
    THEN LET f == ParseFloat(CleanedString(v.s))
         IN IF f.nan THEN Undef ELSE Num(f.n)
    ELSE v

\* lines 243-244: a missing sub-record becomes {}
EnsureSub(sub) == IF sub.def THEN sub ELSE Sub(Undef)

NormalizedPreferencias(p) ==
    MkPrefs(NormalizeOrcamento(p.orcamento), p.ownedComponents,
            EnsureSub(p.perfilPC), EnsureSub(p.ambiente))

\* the check of recommendedComponentIds is left out
ResponseIsValidWithoutIds(r) ==
    /\ r.parsed = "object"
    /\ Truthy(r.aiResponseText)
    /\ r.updatedPreferencias.def

\* line 227: the parsed object and its three required fields must be truthy
ResponseIsValid(r) ==
    /\ r.parsed = "object"
    /\ Truthy(r.aiResponseText)
    /\ r.updatedPreferencias.def
    /\ r.recommendedComponentIds.t # "undefined"

RateLimitCode == 429

\* lines 251-256: the message of the Error thrown to the caller
ErrorMessage(e) ==
    LET isRateLimitError == e.code = RateLimitCode \/ Includes(e.str, <<"4", "2", "9">>)
    IN  IF isRateLimitError THEN RateLimitNotice ELSE GenericNotice

(***************************************************************************)
(* callLiveBuilder: projection of the response onto a build update         *)
(***************************************************************************)
\* componentMap.get(id): the last record of the catalog with that id
Resolves(id) == \E i \in 1..Len(AvailableComponents) : AvailableComponents[i].id = id
Lookup(id) ==
    AvailableComponents[CHOOSE i \in 1..Len(AvailableComponents) :
        /\ AvailableComponents[i].id = id
        /\ \A j \in (i + 1)..Len(AvailableComponents) : AvailableComponents[j].id # id]

\* the projection stops at the first identifier that does not resolve
RECURSIVE RecommendedComponentsUntilMiss(_)
RecommendedComponentsUntilMiss(ids) ==
    IF ids = <<>> \/ ~Resolves(Head(ids)) THEN <<>>
    ELSE <<Lookup(Head(ids))>> \o RecommendedComponentsUntilMiss(Tail(ids))

\* lines 99-102
RECURSIVE RecommendedComponents(_)
RecommendedComponents(ids) ==
    IF ids = <<>> THEN <<>>
    ELSE (IF Resolves(Head(ids)) THEN <<Lookup(Head(ids))>> ELSE <<>>)
         \o RecommendedComponents(Tail(ids))

\* the reduce keeps the last price instead of accumulating
SumPricesLastOnly(cs) == IF cs = <<>> THEN 0 ELSE cs[Len(cs)].Preco

RECURSIVE SumPrices(_)
SumPrices(cs) == IF cs = <<>> THEN 0 ELSE Head(cs).Preco + SumPrices(Tail(cs))

\* line 104: estimatedTotalPrice ?? sum of the prices
TotalPrice(declared, cs) == IF declared.t = "undefined" THEN Num(SumPrices(cs)) ELSE declared

(***************************************************************************)
(* BuildPage.handleBuildUpdate                                             *)
(***************************************************************************)
NoBuild == [null |-> TRUE, componentes |-> <<>>, orcamento |-> Undef,
            justificativa |-> Undef, requisitos |-> EmptyPrefs]
NullPrefs == [null |-> TRUE, v |-> EmptyPrefs]
PagePrefs(p) == [null |-> FALSE, v |-> p]

\* lines 375-380: { ...baseBuild, ...buildUpdate, requisitos }, with the
\* justificativa of ChatbotAnamnesis line 110: response.justification || undefined
UpdatedBuild(cs, total, just, finalPreferences) ==
    [null |-> FALSE, componentes |-> cs, orcamento |-> total,
     justificativa |-> IF Truthy(just) THEN just ELSE Undef,
     requisitos |-> finalPreferences]


(***************************************************************************)
(* The oracle (Gemini) and the location collaborators: what they may       *)
(* answer.  currentData is the Preference Record sent with the request.    *)
(***************************************************************************)
OracleErrors ==
    { Err(RateLimitCode, <<"x">>), Err(0, <<"4", "2", "9">>),
      Err(500, <<"x">>), Err(500, <<"4", "2", "9", "0">>) }

CityValue == Str(<<"Lisboa">>)
FilledPrefs(p) ==
    MkPrefs(Num(300000), Str(<<"gpu">>), Sub(Str(<<"Jogos">>)), p.ambiente)

ValidReplies(currentData) ==
    { MkReply("object", Str(AiReplyText), Update(currentData), Ids(<<>>),
              "none", Undef, Undef),
      MkReply("object", Str(AiReplyText), Update(FilledPrefs(currentData)),
              Ids(<<"c1", "zz", "c2">>), "none", Undef, Str(<<"j">>)),
      MkReply("object", Str(AiReplyText), Update(currentData), Ids(<<"c1">>),
              "request_location_permission", Num(99900), Undef),
      MkReply("object", Str(AiReplyText), Update(MkPrefs(Undef, Undef, NoSub, NoSub)), Ids(<<>>),
              "none", Undef, Undef),
      MkReply("object", Str(AiReplyText), Update(currentData),
              [t |-> "string", ids |-> <<>>],
              "none", Undef, Undef),
      MkReply("object", Str(AiReplyText), Update(currentData), Ids(<<"zz", "c2">>),
              "none", Str(<<"459,00">>), Undef) }

InvalidReplies(currentData) ==
    { NoReply,
      MkReply("scalar", Undef, NoUpdate, NoIds, "none", Undef, Undef),
      MkReply("object", Undef, Update(FilledPrefs(currentData)), Ids(<<"c1">>),
              "none", Undef, Undef),
      MkReply("object", Str(<<>>), Update(FilledPrefs(currentData)), Ids(<<"c1">>),
              "none", Undef, Undef),
      MkReply("object", Str(AiReplyText), NoUpdate, Ids(<<"c1">>),
              "request_location_permission", Undef, Undef),
      MkReply("object", Str(AiReplyText), Update(FilledPrefs(currentData)), NoIds,
              "request_location_permission", Undef, Undef) }

OracleReplies(currentData) == ValidReplies(currentData) \cup InvalidReplies(currentData)

GeoAnswers == {"null", "nocity", "city"}

(***************************************************************************)
(* Rendering                                                               *)
(***************************************************************************)
Snapshot(ms, ld, aw, lp, pr) ==
    [messages |-> ms, isLoading |-> ld, awaitingLocationPermission |-> aw,
     locationProcessed |-> lp, preferencias |-> pr]

\* line 135: the cleanup of the start effect clears its timer when a
\* dependency of the effect (line 137) has changed; callLiveBuilder changes
\* identity with locationProcessed (line 123)
TimerAfterCommit(new) ==
    LET effectDepsChanged ==
            \/ Len(new.messages) # Len(rendered.messages)
            \/ new.preferencias # rendered.preferencias
            \/ new.locationProcessed # rendered.locationProcessed
    IN  IF startTimer = "armed" /\ effectDepsChanged THEN "cleared" ELSE startTimer

\* a commit of the state as the step leaves it
Commit ==
    /\ rendered' = Snapshot(messages', isLoading', awaitingLocationPermission',
                            locationProcessed', preferencias')
    /\ startTimer' = TimerAfterCommit(rendered')

\* JSX: the form replaces the permission buttons (lines 250, 263); the input
\* and the buttons are disabled while loading (lines 254, 257, 271, 274)
FormRendered == ~rendered.awaitingLocationPermission
ButtonsRendered == rendered.awaitingLocationPermission
ControlsEnabled == ~rendered.isLoading

(***************************************************************************)
(* callLiveBuilder, up to the await of getLiveBuildResponse                *)
(***************************************************************************)
\* the busy flag is not raised when a call is issued
LoadingOnCallNever == FALSE

\* line 88
LoadingOnCall == TRUE

\* the busy flag stays raised when the turn ends
LoadingAfterTurnStuck == TRUE

\* lines 120-122: the finally block of callLiveBuilder
LoadingAfterTurn == FALSE

\* the history is the list as the handler leaves it, the input's message included
NewCallWithInput(input, currentData, lp) ==
    [id |-> turns + 1, input |-> input, currentData |-> currentData,
     locationProcessed |-> lp, history |-> Append(rendered.messages, Msg("user", input))]

\* line 90: the history is messagesRef.current, the list of the last render
NewCall(input, currentData, lp) ==
    [id |-> turns + 1, input |-> input, currentData |-> currentData,
     locationProcessed |-> lp, history |-> rendered.messages]

\* lines 83-90 with getLiveBuildResponse lines 150-153 and 205-223; without
\* an API key the promise resolves with null at once (lines 114-116, 120-122)
CallLiveBuilder(input, currentData, lp, msgs) ==
    /\ turns' = turns + 1
    /\ IF apiKey
       THEN /\ calls' = calls \cup {NewCall(input, currentData, lp)}
            /\ isLoading' = LoadingOnCall
            /\ messages' = msgs
            /\ lastOutcome' = lastOutcome
       ELSE /\ calls' = calls
            /\ isLoading' = LoadingAfterTurn
            /\ messages' = Append(msgs, Msg("system", InvalidNotice))
            /\ lastOutcome' = Outcome("nokey", NoErr, NoReply)

\* no call of the parser is being followed
ParserIdle ==
    /\ parserInput = <<>>
    /\ parserResult = "idle"

\* no call of the filter is being followed
FilterIdle ==
    /\ filterComponents = <<>>
    /\ filterBudget = Undef
    /\ filterResult = [done |-> FALSE, out |-> <<>>]

\* no application of the question flow is being followed
PolicyIdle ==
    /\ policyInput = [prefs |-> <<>>, history |-> <<>>]
    /\ policyResult = [done |-> FALSE, handled |-> FALSE, question |-> "none"]

\* no extraction of compatibility warnings is being followed
WarningsIdle ==
    /\ warningsInput = [update |-> <<>>, base |-> <<>>]
    /\ warningsResult = [done |-> FALSE, out |-> <<>>, justificativa |-> <<>>]

(***************************************************************************)
(* Initial state: the component is mounted by the page with no saved       *)
(* preferences, and its start effect has run (lines 49-57, 127-137).       *)
(***************************************************************************)
InitialAnamnesisData == EmptyPrefs

ChatInit ==
    \* line 129: Object.keys(initialAnamnesisData).length <= 2
    /\ LET p == InitialAnamnesisData
       IN  (IF p.orcamento.t = "undefined" THEN 0 ELSE 1)
           + (IF p.ownedComponents.t = "undefined" THEN 0 ELSE 1)
           + (IF p.perfilPC.def THEN 1 ELSE 0)
           + (IF p.ambiente.def THEN 1 ELSE 0) <= 2
    /\ messages = << Msg("ai", GreetingText) >>
    /\ userInput = <<>>
    /\ isLoading = FALSE
    /\ preferencias = InitialAnamnesisData
    /\ awaitingLocationPermission = FALSE
    /\ locationProcessed = Truthy(InitialAnamnesisData.ambiente.v)
    /\ startTimer = "armed"
    /\ rendered = Snapshot(<<>>, FALSE, FALSE, Truthy(InitialAnamnesisData.ambiente.v),
                           InitialAnamnesisData)
    /\ calls = {}
    /\ geo = [phase |-> "idle", currentPrefs |-> EmptyPrefs, locationProcessed |-> FALSE]
    /\ turns = 0
    /\ lastOutcome = NoOutcome
    /\ currentBuild = NoBuild
    /\ pagePreferencias = NullPrefs
    /\ isBuildComplete = FALSE
    /\ apiKey \in BOOLEAN
    /\ orphans = {}

\* no normalization of a budget is being followed
BudgetIdle == budgetCall = [in |-> Undef, done |-> FALSE, out |-> Undef]

\* the build page is shown to a visitor who is not logged in: no Build yet,
\* nothing in the session storage, no timer (BuildPage lines 40-58)
AuthIdle ==
    auth = [user |-> FALSE, route |-> "build", fromLogin |-> FALSE, action |-> "none",
            build |-> 0, pendingBuild |-> 0, pendingActionForAuth |-> "none",
            modal |-> FALSE, anonymous |-> FALSE, timer |-> "none", executed |-> <<>>]

\* nothing is cached (componentService line 92) and no call has been made
ServicesIdle ==
    /\ componentCache = [null |-> TRUE, id |-> 0, items |-> <<>>]
    /\ catalogCalls = [calls |-> 0, loads |-> 0,
                       returned |-> [null |-> TRUE, id |-> 0, items |-> <<>>], out |-> <<>>]

Init ==
    /\ ChatInit /\ ParserIdle /\ FilterIdle /\ PolicyIdle /\ WarningsIdle
    /\ ServicesIdle /\ BudgetIdle /\ AuthIdle


(***************************************************************************)
(* Actions of the conversation                                             *)
(***************************************************************************)
GeoIdle == [phase |-> "idle", currentPrefs |-> EmptyPrefs, locationProcessed |-> FALSE]

\* a commit of updates made outside an event handler (timer, promise
\* continuation, effect); it runs the cleanup of the start effect
Render ==
    /\ rendered # Snapshot(messages, isLoading, awaitingLocationPermission,
                           locationProcessed, preferencias)
    /\ UNCHANGED <<messages, userInput, isLoading, preferencias,
                   awaitingLocationPermission, locationProcessed,
                   calls, geo, turns, lastOutcome, pageVars, apiKey, orphans, pureVars, serviceVars>>
    /\ Commit

\* the callback of the start timer (lines 131-133), with the closure of the
\* render the effect ran in
StartTimerFire ==
    /\ startTimer = "armed"
    /\ turns < MaxTurns
    /\ startTimer' = "fired"
    /\ CallLiveBuilder(StartInput, rendered.preferencias, rendered.locationProcessed,
                       messages)
    /\ UNCHANGED <<userInput, preferencias, awaitingLocationPermission,
                   locationProcessed, rendered, geo, pageVars, apiKey, orphans, pureVars, serviceVars>>

\* onChange of the input field (line 268)
SetUserInput(t) ==
    /\ FormRendered /\ ControlsEnabled
    /\ t # userInput
    /\ userInput' = t
    /\ UNCHANGED <<messages, isLoading, preferencias, awaitingLocationPermission,
                   locationProcessed, calls, geo, turns, lastOutcome, pageVars, apiKey, orphans, pureVars, serviceVars>>
    /\ Commit

\* line 145: the early return of handleSendMessage
SendGuard ==
    /\ Trim(userInput) # <<>>
    /\ ~rendered.isLoading
    /\ ~rendered.awaitingLocationPermission

\* lines 143-151
HandleSendMessage ==
    /\ FormRendered /\ ControlsEnabled
    /\ SendGuard
    /\ turns < MaxTurns
    /\ CallLiveBuilder(userInput, rendered.preferencias, rendered.locationProcessed,
                       Append(messages, Msg("user", userInput)))
    /\ userInput' = <<>>
    /\ UNCHANGED <<preferencias, awaitingLocationPermission, locationProcessed,
                   geo, pageVars, apiKey, orphans, pureVars, serviceVars>>
    /\ Commit

\* a failed call is issued once more
CallsAfterFailureRetry(c) ==
    IF c.id > 0 THEN (calls \ {c}) \cup {[c EXCEPT !.id = 0 - c.id]} ELSE calls \ {c}

\* lines 114-122: a failed turn adds a notice and issues no new call
CallsAfterFailure(c) == calls \ {c}

\* getLiveBuildResponse lines 248-257 and callLiveBuilder lines 117-122
OracleRejects(c, e) ==
    /\ c \in calls
    /\ calls' = CallsAfterFailure(c)
    /\ messages' = Append(messages, Msg("system", ErrorMessage(e)))
    /\ isLoading' = LoadingAfterTurn
    /\ lastOutcome' = Outcome("rejected", e, NoReply)
    /\ UNCHANGED <<userInput, preferencias, awaitingLocationPermission,
                   locationProcessed, startTimer, rendered, geo, turns, pageVars, apiKey, orphans, pureVars, serviceVars>>

\* getLiveBuildResponse lines 225-230 and callLiveBuilder lines 114-116, 120-122
OracleReturnsInvalid(c, r) ==
    /\ c \in calls
    /\ ~ResponseIsValid(r)
    /\ calls' = CallsAfterFailure(c)
    /\ messages' = Append(messages, Msg("system", InvalidNotice))
    /\ isLoading' = LoadingAfterTurn
    /\ lastOutcome' = Outcome("fulfilled", NoErr, r)
    /\ UNCHANGED <<userInput, preferencias, awaitingLocationPermission,
                   locationProcessed, startTimer, rendered, geo, turns, pageVars, apiKey, orphans, pureVars, serviceVars>>

\* the permission request of the response is ignored
AwaitingAfterResponseIgnored(action, lp) == awaitingLocationPermission

\* lines 95-97, with the locationProcessed of the closure that made the call
AwaitingAfterResponse(action, lp) ==
    IF action = "request_location_permission" /\ ~lp THEN TRUE
    ELSE awaitingLocationPermission

\* getLiveBuildResponse lines 232-246, callLiveBuilder lines 91-113, 117-122
\* and handleBuildUpdate (BuildPage lines 359-386)
OracleReturnsValid(c, r) ==
    /\ c \in calls
    /\ ResponseIsValid(r)
    /\ LET updated == NormalizedPreferencias(r.updatedPreferencias.v)
           cs == RecommendedComponents(r.recommendedComponentIds.ids)
           withReply == Append(messages, Msg("ai", r.aiResponseText.s))
       IN  /\ preferencias' = updated    \* line 93
           /\ awaitingLocationPermission' =
                  AwaitingAfterResponse(r.actionRequired, c.locationProcessed)
           /\ IF r.recommendedComponentIds.t # "string"
              THEN /\ messages' = withReply
                   /\ currentBuild' = UpdatedBuild(cs, TotalPrice(r.estimatedTotalPrice, cs),
                                                   r.justification, updated)
                   /\ pagePreferencias' = PagePrefs(updated)
                   /\ isBuildComplete' = (Len(cs) > 0)
              ELSE \* a truthy value that is no array has no map: caught at line 117
                   /\ messages' = Append(withReply, Msg("system", <<"map is not a function">>))
                   /\ UNCHANGED pageVars
    /\ calls' = calls \ {c}
    /\ isLoading' = LoadingAfterTurn
    /\ lastOutcome' = Outcome("fulfilled", NoErr, r)
    /\ UNCHANGED <<userInput, locationProcessed, startTimer, rendered, geo, turns, apiKey, orphans, pureVars, serviceVars>>

\* lines 164-174: the grant button, up to the await of getUserLocation
HandleAutoLocation ==
    /\ ButtonsRendered /\ ControlsEnabled
    /\ geo.phase = "idle"
    /\ turns < MaxTurns
    /\ awaitingLocationPermission' = FALSE
    /\ locationProcessed' = TRUE
    /\ messages' = Append(messages, Msg("system", AllowNotice))
    /\ isLoading' = TRUE
    /\ geo' = [phase |-> "locating",
               currentPrefs |-> [rendered.preferencias EXCEPT
                                    !.ambiente = EnsureSub(rendered.preferencias.ambiente)],
               locationProcessed |-> rendered.locationProcessed]
    /\ UNCHANGED <<userInput, preferencias, calls, turns, lastOutcome, pageVars, apiKey, orphans, pureVars, serviceVars>>
    /\ Commit

\* the branch without a city leaves the busy flag raised
LocationResolvedKeepsBusy(loc) ==
    /\ geo.phase = "locating"
    /\ IF loc = "city"
       THEN /\ geo' = [geo EXCEPT !.phase = "weather",
                                  !.currentPrefs.ambiente = Sub(CityValue)]
            /\ messages' = Append(messages, Msg("system", LocationNotice))
       ELSE /\ geo' = GeoIdle
            /\ messages' = messages \o << Msg("system", NoLocationNotice),
                                          Msg("ai", AskCityText) >>
    /\ UNCHANGED <<userInput, isLoading, preferencias, awaitingLocationPermission,
                   locationProcessed, startTimer, rendered, calls, turns, lastOutcome,
                   pageVars, apiKey, orphans, pureVars, serviceVars>>

\* lines 174-182 and 197-201: getUserLocation has answered
LocationResolved(loc) ==
    /\ geo.phase = "locating"
    /\ IF loc = "city"
       THEN /\ geo' = [geo EXCEPT !.phase = "weather",
                                  !.currentPrefs.ambiente = Sub(CityValue)]
            /\ messages' = Append(messages, Msg("system", LocationNotice))
            /\ UNCHANGED isLoading
       ELSE /\ geo' = GeoIdle
            /\ messages' = messages \o << Msg("system", NoLocationNotice),
                                          Msg("ai", AskCityText) >>
            /\ isLoading' = FALSE
    /\ UNCHANGED <<userInput, preferencias, awaitingLocationPermission,
                   locationProcessed, startTimer, rendered, calls, turns, lastOutcome,
                   pageVars, apiKey, orphans, pureVars, serviceVars>>

\* lines 182-196: getCityWeather has answered; the oracle is called with the
\* callLiveBuilder of the render the button was clicked in
WeatherResolved(found) ==
    /\ geo.phase = "weather"
    /\ geo' = GeoIdle
    /\ CallLiveBuilder(<<"Informacao do sistema">>, geo.currentPrefs, geo.locationProcessed,
                       Append(messages, Msg("system",
                              IF found THEN WeatherNotice ELSE NoWeatherNotice)))
    /\ UNCHANGED <<userInput, preferencias, awaitingLocationPermission,
                   locationProcessed, startTimer, rendered, pageVars, apiKey, orphans, pureVars, serviceVars>>

\* lines 214-220: the decline button
HandleManualLocationPrompt ==
    /\ ButtonsRendered /\ ControlsEnabled
    /\ geo.phase = "idle"
    /\ awaitingLocationPermission' = FALSE
    /\ locationProcessed' = TRUE
    /\ messages' = messages \o << Msg("system", DeclineNotice), Msg("ai", AskCityText) >>
    /\ UNCHANGED <<userInput, isLoading, preferencias, calls, geo, turns, lastOutcome,
                   pageVars, apiKey, orphans, pureVars, serviceVars>>
    /\ Commit

Next ==
    \/ Render
    \/ StartTimerFire
    \/ \E t \in {<<>>, <<" ">>, <<"a">>} : SetUserInput(t)
    \/ HandleSendMessage
    \/ \E c \in calls : \E e \in OracleErrors : OracleRejects(c, e)
    \/ \E c \in calls : \E r \in OracleReplies(c.currentData) : OracleReturnsInvalid(c, r)
    \/ \E c \in calls : \E r \in OracleReplies(c.currentData) : OracleReturnsValid(c, r)
    \/ HandleAutoLocation
    \/ \E loc \in GeoAnswers : LocationResolved(loc)
    \/ \E found \in BOOLEAN : WeatherResolved(found)
    \/ HandleManualLocationPrompt

Spec == Init /\ [][Next]_vars


(***************************************************************************)
(* Properties of the conversation                                          *)
(***************************************************************************)
\* the step settles a pending oracle call
Settles == (calls \ calls') # {}
\* the step issues an oracle call
Issues == (calls' \ calls) # {}
\* the messages the step appends
Appended == SubSeq(messages', Len(messages) + 1, Len(messages'))
AppendsFrom(sender) == \E i \in 1..Len(Appended) : Appended[i].sender = sender

\* the parsed object lacks one of the three required top-level fields
LacksRequiredField(r) ==
    \/ r.parsed # "object"
    \/ r.aiResponseText.t = "undefined"
    \/ ~r.updatedPreferencias.def
    \/ r.recommendedComponentIds.t = "undefined"

FailedOutcome(o) ==
    \/ o.kind = "rejected"
    \/ o.kind = "fulfilled" /\ LacksRequiredField(o.reply)

\* C1: at most one oracle call (getLiveBuildResponse) is outstanding at any
\* time, over every interleaving of the start timer, handleSendMessage,
\* handleAutoLocation and handleManualLocationPrompt.
C1_AtMostOneOutstanding == Cardinality(calls) <= 1

\* a call is outstanding while the user has a message typed in the input
C1_Witness == Cardinality(calls) = 1 /\ Trim(userInput) # <<>>

\* a value that is present and not the empty string
NonEmpty(v) == v.t # "undefined" /\ ~(v.t = "string" /\ v.s = <<>>)
PrefValues(p) == <<p.orcamento, p.ownedComponents, p.perfilPC.v, p.ambiente.v>>

\* C2: a key of the Preference Record (top-level, or inside perfilPC or
\* ambiente) that holds a non-empty value is never absent or empty after a
\* later turn's merge; a response that omits it does not drop it.
C2_MergeKeepsValues ==
    [][\A i \in 1..4 : NonEmpty(PrefValues(preferencias)[i])
                          => NonEmpty(PrefValues(preferencias')[i])]_vars

\* C3: when the oracle's text cannot be parsed, or the parsed object lacks a
\* required top-level field, or the oracle call fails, the turn ends with
\* the Preference Record and the current Build exactly as they were.
C3_FailureLeavesRecordAndBuild ==
    [][(Settles /\ FailedOutcome(lastOutcome'))
          => UNCHANGED <<preferencias, currentBuild, pagePreferencias>>]_vars

\* a turn failed on a response lacking a field after an earlier turn had
\* filled the Preference Record and produced a Build
C3_Witness ==
    /\ lastOutcome.kind = "fulfilled" /\ LacksRequiredField(lastOutcome.reply)
    /\ lastOutcome.reply.parsed = "object"
    /\ preferencias.orcamento = Num(300000)
    /\ ~currentBuild.null /\ Len(currentBuild.componentes) = 2

\* C6: once the location side-channel has been resolved (granted or
\* declined), the engine never again enters AwaitingSideChannel, whatever
\* actionRequired later responses carry.
C6_NoSecondPermissionRequest == locationProcessed => ~awaitingLocationPermission

\* the step ends a turn with a successful response: the reply is shown
Succeeds == Settles /\ lastOutcome'.kind = "fulfilled" /\ AppendsFrom("ai")

\* C7: a successful response carrying request_location_permission while the
\* side-channel is unresolved makes the engine await the permission; while
\* it awaits, no user message is accepted and no oracle call is issued.
C7_AwaitsAndBlocks ==
    [][/\ (/\ Succeeds
           /\ lastOutcome'.reply.actionRequired = "request_location_permission"
           /\ ~locationProcessed)
          => awaitingLocationPermission'
       /\ (awaitingLocationPermission /\ awaitingLocationPermission')
          => (~AppendsFrom("user") /\ ~Issues)]_vars

\* the engine awaits the permission, rendered the two buttons, and the text
\* the user typed earlier is still in the input
C7_Witness ==
    /\ awaitingLocationPermission /\ rendered.awaitingLocationPermission
    /\ ~locationProcessed
    /\ Trim(userInput) # <<>>

FailureNotices == {i \in 1..Len(messages) : messages[i].sender = "system"}

\* C8: without an API key the conversation fails terminally: the failure is
\* reported once and no later user message produces another report.
C8_FailureReportedOnce == ~apiKey => Cardinality(FailureNotices) <= 1

RECURSIVE Numbers(_, _)
\* the maximal runs of digits of a text
Numbers(s, run) ==
    IF s = <<>> THEN (IF run = <<>> THEN {} ELSE {run})
    ELSE IF IsDigit(Head(s)) THEN Numbers(Tail(s), Append(run, Head(s)))
    ELSE (IF run = <<>> THEN {} ELSE {run}) \cup Numbers(Tail(s), <<>>)

\* the failure is a rate-limit condition: its code is 429, or its
\* description reports the number 429
RateLimitCondition(e) == e.code = 429 \/ <<"4", "2", "9">> \in Numbers(e.str, <<>>)

\* C9: a failure with a rate-limit condition (code 429) surfaces the
\* too-many-requests message; any other failure surfaces the generic retry
\* message and never the rate-limit message.
C9_RateLimitMessageOnlyForRateLimit ==
    [][(Settles /\ lastOutcome'.kind = "rejected")
          => Appended = << Msg("system",
                               IF RateLimitCondition(lastOutcome'.error)
                               THEN RateLimitNotice ELSE GenericNotice) >>]_vars

\* C10: each turn invokes the oracle at most once: a step that settles a
\* call issues none, and a call is issued only by a user action (a message
\* sent, the location prompt answered) or by the start timer.
C10_NoAutomaticRetry ==
    [][/\ Cardinality(calls' \ calls) <= 1
       /\ Settles => ~Issues
       /\ Issues => \/ AppendsFrom("user")
                    \/ geo.phase = "weather" /\ geo'.phase = "idle"
                    \/ startTimer = "armed" /\ startTimer' = "fired"]_vars

\* a turn failed, and the call now pending was issued by the user's next message
C10_Witness ==
    /\ FailedOutcome(lastOutcome)
    /\ Cardinality(calls) = 1
    /\ messages[Len(messages)].sender = "user"

(***************************************************************************)
(* parseJsonFromGeminiResponse.  A response text is a sequence of lexical  *)
(* tokens: the code fence, the json tag, the braces, the comma, a quoted   *)
(* key with its colon, a number literal, a word of prose and white space.  *)
(***************************************************************************)
MaxLen == 4

\* the three-backtick code fence
Fence == "fence"
JsonTag == "json"
KeyColon == "\"k\":"
NumberLiteral == "42"
Prose == "txt"
WhiteSpace == " "
Tokens == {Fence, JsonTag, "{", "}", ",", KeyColon, NumberLiteral, Prose, WhiteSpace}

\* fenceRegex (fence, optional json tag, white space, group, white space,
\* fence, anchored at both ends): the captured group, <<>> when the
\* text does not match or the group is empty
FenceMatch(str) ==
    IF Len(str) >= 2 /\ str[1] = Fence /\ str[Len(str)] = Fence
    THEN LET inner == SubSeq(str, 2, Len(str) - 1)
             untagged == IF inner # <<>> /\ Head(inner) = JsonTag THEN Tail(inner) ELSE inner
         IN  Trim(untagged)
    ELSE <<>>

Unfenced(str) == IF FenceMatch(str) # <<>> THEN Trim(FenceMatch(str)) ELSE str

\* indexOf / lastIndexOf, 0 standing for the -1 of the code
IndexOf(str, tok) ==
    IF \E i \in 1..Len(str) : str[i] = tok
    THEN CHOOSE i \in 1..Len(str) : str[i] = tok /\ \A j \in 1..(i - 1) : str[j] # tok
    ELSE 0

LastIndexOf(str, tok) ==
    IF \E i \in 1..Len(str) : str[i] = tok
    THEN CHOOSE i \in 1..Len(str) : str[i] = tok /\ \A j \in (i + 1)..Len(str) : str[j] # tok
    ELSE 0

BraceSlice(str) ==
    LET firstBrace == IndexOf(str, "{")
        lastBrace == LastIndexOf(str, "}")
    IN  IF firstBrace # 0 /\ lastBrace > firstBrace
        THEN SubSeq(str, firstBrace, lastBrace)
        ELSE str

\* JSON.parse: a value is a number literal or an object of keyed values
ParseFail == [ok |-> FALSE, rest |-> <<>>]
ParseOk(rest) == [ok |-> TRUE, rest |-> rest]

RECURSIVE ParseValue(_), ParseMembers(_)
ParseValue(str) ==
    LET t == TrimLeft(str)
    IN  IF t = <<>> THEN ParseFail
        ELSE IF Head(t) = NumberLiteral THEN ParseOk(Tail(t))
        ELSE IF Head(t) = "{"
             THEN LET u == TrimLeft(Tail(t))
                  IN  IF u # <<>> /\ Head(u) = "}" THEN ParseOk(Tail(u)) ELSE ParseMembers(u)
        ELSE ParseFail

ParseMembers(str) ==
    LET t == TrimLeft(str)
    IN  IF t = <<>> \/ Head(t) # KeyColon THEN ParseFail
        ELSE LET v == ParseValue(Tail(t))
                 w == TrimLeft(v.rest)
             IN  IF ~v.ok \/ w = <<>> THEN ParseFail
                 ELSE IF Head(w) = "}" THEN ParseOk(Tail(w))
                 ELSE IF Head(w) = "," THEN ParseMembers(Tail(w))
                 ELSE ParseFail

\* the kind of value JSON.parse returns, "SyntaxError" when it throws
JsonParse(str) ==
    LET r == ParseValue(str)
    IN  IF r.ok /\ TrimLeft(r.rest) = <<>>
        THEN IF Head(TrimLeft(str)) = "{" THEN "object" ELSE "number"
        ELSE "SyntaxError"

\* the run of white space a text starts with
RECURSIVE LeadingSpace(_)
LeadingSpace(str) ==
    IF str # <<>> /\ Head(str) = WhiteSpace
    THEN <<WhiteSpace>> \o LeadingSpace(Tail(str))
    ELSE <<>>

\* jsonStr.replace(/}(\s*),/g, '$1,')
RECURSIVE FixedJsonStr(_)
FixedJsonStr(str) ==
    IF str = <<>> THEN <<>>
    ELSE LET after == TrimLeft(Tail(str))
         IN  IF Head(str) = "}" /\ after # <<>> /\ Head(after) = ","
             THEN LeadingSpace(Tail(str)) \o <<",">> \o FixedJsonStr(Tail(after))
             ELSE <<Head(str)>> \o FixedJsonStr(Tail(str))

SecondParse(fixed) == IF JsonParse(fixed) = "SyntaxError" THEN "null" ELSE JsonParse(fixed)

\* the kind of value the parser returns; "SyntaxError" would be a throw
ParseJsonFromGeminiResponse(responseText) ==
    LET jsonStr == BraceSlice(Unfenced(Trim(responseText)))
    IN  IF JsonParse(jsonStr) # "SyntaxError"
        THEN JsonParse(jsonStr)
        ELSE SecondParse(FixedJsonStr(jsonStr))

\* longer texts: a JSON-like core in the wrappings a model reply comes in
ValidObject == <<"{", KeyColon, NumberLiteral, "}">>
NestedObject == <<"{", KeyColon, "{", KeyColon, NumberLiteral, "}", "}">>
TruncatedObject == <<"{", KeyColon, NumberLiteral, ",", KeyColon>>
ExtraBrace == <<"{", KeyColon, NumberLiteral, "}", ",", KeyColon, NumberLiteral, "}">>
ExtraBraceSpaced == <<"{", KeyColon, NumberLiteral, "}", WhiteSpace, ",", KeyColon, NumberLiteral, "}">>

Wrappings(core) ==
    { core,
      <<Fence>> \o core \o <<Fence>>,
      <<Fence, JsonTag, WhiteSpace>> \o core \o <<WhiteSpace, Fence>>,
      <<WhiteSpace, Fence, JsonTag>> \o core \o <<Fence, WhiteSpace>>,
      <<Prose, WhiteSpace>> \o core \o <<WhiteSpace, Prose>>,
      <<Prose, WhiteSpace, Fence, JsonTag>> \o core \o <<Fence>> }

InitParser ==
    /\ ChatInit /\ apiKey /\ ServicesIdle /\ BudgetIdle /\ AuthIdle
    /\ FilterIdle /\ PolicyIdle /\ WarningsIdle
    \* every text of at most MaxLen tokens, and the longer ones
    /\ parserInput \in
           UNION {[1..n -> Tokens] : n \in 0..MaxLen}
           \cup UNION {Wrappings(core) : core \in {ValidObject, NestedObject, TruncatedObject,
                                                    ExtraBrace, ExtraBraceSpaced}}
    /\ parserResult = "pending"

ParseResponse ==
    /\ parserResult = "pending"
    /\ parserResult' = ParseJsonFromGeminiResponse(parserInput)
    /\ UNCHANGED <<chatVars, pageVars, apiKey, orphans, serviceVars, parserInput,
                   filterComponents, filterBudget, filterResult,
                   policyInput, policyResult, warningsInput, warningsResult>>

SpecParser == InitParser /\ [][ParseResponse]_vars

\* C4: whatever text it is given, the parser returns a JSON object or null
\* and never throws.
C4_ReturnsObjectOrNull == parserResult \in {"idle", "pending", "object", "null"}

\* the parser is total: no text makes it throw
ParserNeverThrows == parserResult # "SyntaxError"

\* what each class of text comes out as
ParserClasses ==
    parserResult # "pending" =>
        /\ parserInput \in Wrappings(ValidObject) \cup Wrappings(NestedObject)
              => parserResult = "object"
        /\ parserInput \in Wrappings(ExtraBrace) \cup Wrappings(ExtraBraceSpaced)
              => parserResult = "object"
        /\ parserInput \in Wrappings(TruncatedObject) => parserResult = "null"
        /\ parserInput = <<>> => parserResult = "null"

(***************************************************************************)
(* preFilterComponents.  Prices and budgets are in centavos; proportions   *)
(* are in hundredths, so distances to the target price are compared        *)
(* multiplied by 100.                                                      *)
(***************************************************************************)
MaxPerCategory == 22
MaxOther == 2
MaxExcess == 2       \* components above the cap of the branch without budget

COMPONENT_COUNT_PER_CATEGORY == 20

\* the cap is the count per category
MaxComponentsOneCategory == COMPONENT_COUNT_PER_CATEGORY

\* line 96
MaxComponents == COMPONENT_COUNT_PER_CATEGORY * 8

\* !budget || budget <= 0
NoBudget(budget) == ~Truthy(budget) \/ budget.n <= 0

\* budgetDistribution[category] || 0.05, in hundredths (category names are
\* written without their accents)
BudgetDistribution(category) ==
    CASE category = "Processadores" -> 20
      [] category = "Placas de Video" -> 35
      [] category = "Placas-Mae" -> 12
      [] category = "Memoria RAM" -> 8
      [] category = "SSD" -> 8
      [] category = "Fonte" -> 7
      [] category = "Gabinete" -> 5
      [] category = "Cooler" -> 5
      [] OTHER -> 5

\* the distance keeps its sign
DiffSigned(c, budget) == c.Preco * 100 - budget * BudgetDistribution(c.Categoria)

\* Math.abs(c.Preco - targetPrice), times 100
Diff(c, budget) ==
    LET x == c.Preco * 100 - budget * BudgetDistribution(c.Categoria)
    IN  IF x < 0 THEN -x ELSE x

\* [...new Set(components.map(c => c.Categoria))]: first appearances, in order
RECURSIVE AllCategories(_, _)
AllCategories(components, seen) ==
    IF components = <<>> THEN seen
    ELSE IF \E i \in 1..Len(seen) : seen[i] = Head(components).Categoria
         THEN AllCategories(Tail(components), seen)
         ELSE AllCategories(Tail(components), Append(seen, Head(components).Categoria))

\* components.filter(c => c.Categoria === category)
RECURSIVE CategoryComponents(_, _)
CategoryComponents(components, category) ==
    IF components = <<>> THEN <<>>
    ELSE IF Head(components).Categoria = category
         THEN <<Head(components)>> \o CategoryComponents(Tail(components), category)
         ELSE CategoryComponents(Tail(components), category)

\* the stable sort by distance to the target price
RECURSIVE InsertByDiff(_, _, _)
InsertByDiff(sorted, c, budget) ==
    IF sorted = <<>> THEN <<c>>
    ELSE IF Diff(Head(sorted), budget) <= Diff(c, budget)
         THEN <<Head(sorted)>> \o InsertByDiff(Tail(sorted), c, budget)
         ELSE <<c>> \o sorted

RECURSIVE SortedComponents(_, _)
SortedComponents(cs, budget) ==
    IF cs = <<>> THEN <<>>
    ELSE InsertByDiff(SortedComponents(SubSeq(cs, 1, Len(cs) - 1), budget), cs[Len(cs)], budget)

TopNUnsliced(sorted) == sorted

\* sortedComponents.slice(0, COMPONENT_COUNT_PER_CATEGORY)
TopN(sorted) ==
    IF Len(sorted) <= COMPONENT_COUNT_PER_CATEGORY THEN sorted
    ELSE SubSeq(sorted, 1, COMPONENT_COUNT_PER_CATEGORY)

\* the Map keyed by id: a component whose id is already a key is skipped
RECURSIVE SetAll(_, _)
SetAll(final, topN) ==
    IF topN = <<>> THEN final
    ELSE IF \E i \in 1..Len(final) : final[i].id = Head(topN).id
         THEN SetAll(final, Tail(topN))
         ELSE SetAll(Append(final, Head(topN)), Tail(topN))

RECURSIVE ForEachCategory(_, _, _, _)
ForEachCategory(categories, components, budget, final) ==
    IF categories = <<>> THEN final
    ELSE ForEachCategory(Tail(categories), components, budget,
            SetAll(final, TopN(SortedComponents(
                CategoryComponents(components, Head(categories)), budget))))

\* the budget branch of preFilterComponents
FilterByBudget(components, budget) ==
    ForEachCategory(AllCategories(components, <<>>), components, budget, <<>>)

\* the catalogs the filter is given: nMain processors and nOther monitors,
\* priced in rising, falling or equal steps, optionally followed by an entry
\* that repeats the id of the first processor in the same or the other category
FamilyPrice(pattern, i) ==
    CASE pattern = "asc" -> i * 10000
      [] pattern = "desc" -> (MaxPerCategory + 2 - i) * 10000
      [] OTHER -> 100000

FamilyCatalog(nMain, nOther, pattern, dup) ==
    [i \in 1..nMain |-> Comp(i, "Processadores", FamilyPrice(pattern, i))]
    \o [j \in 1..nOther |-> Comp(100 + j, "Monitor", FamilyPrice(pattern, j))]
    \o (IF nMain > 0 /\ dup = "same"
        THEN <<Comp(1, "Processadores", FamilyPrice(pattern, 1))>>
        ELSE IF nMain > 0 /\ dup = "cross"
        THEN <<Comp(1, "Monitor", FamilyPrice(pattern, 1))>>
        ELSE <<>>)

InitFilter ==
    /\ ChatInit /\ apiKey /\ ServicesIdle /\ BudgetIdle /\ AuthIdle
    /\ ParserIdle /\ PolicyIdle /\ WarningsIdle
    /\ filterBudget \in {Undef, Num(0), Num(-100000), Num(100000), Num(500000), Num(1000000)}
    /\ \/ \E nMain \in 0..MaxPerCategory, nOther \in 0..MaxOther,
             pattern \in {"asc", "desc", "flat"}, dup \in {"none", "same", "cross"} :
               filterComponents = FamilyCatalog(nMain, nOther, pattern, dup)
       \* catalogs around the cap of line 96, filtered without a budget:
       \* memory modules in rising prices, the last one optionally a second
       \* entry of the first
       \/ /\ \E n \in (MaxComponents - 1)..(MaxComponents + MaxExcess), dup \in BOOLEAN :
                  filterComponents =
                      [i \in 1..n |-> IF dup /\ i = n THEN Comp(1, "Memoria RAM", 1000)
                                      ELSE Comp(i, "Memoria RAM", i * 1000)]
          /\ NoBudget(filterBudget)
    /\ filterResult = [done |-> FALSE, out |-> <<>>]

\* [...components].sort(() => 0.5 - Math.random()): the comparator answers
\* at random, so the copy ends in an order the engine's sort happens to
\* leave; of these orders the rotations of the catalog and their reversals
\* are followed
Shuffled(components) ==
    LET n == Len(components)
        Rotated(k) == [i \in 1..n |-> components[((i + k - 1) % n) + 1]]
    IN  {Rotated(k) : k \in 0..(n - 1)}
        \cup {[i \in 1..n |-> Rotated(k)[n + 1 - i]] : k \in 0..(n - 1)}

\* a call without a budget (lines 95-99)
FilterWithoutBudget ==
    /\ ~filterResult.done
    /\ NoBudget(filterBudget)
    /\ IF Len(filterComponents) <= MaxComponents
       THEN filterResult' = [done |-> TRUE, out |-> filterComponents]
       ELSE \E shuffled \in Shuffled(filterComponents) :
               filterResult' = [done |-> TRUE, out |-> SubSeq(shuffled, 1, MaxComponents)]
    /\ UNCHANGED <<chatVars, pageVars, apiKey, orphans, serviceVars, parserInput, parserResult,
                   filterComponents, filterBudget,
                   policyInput, policyResult, warningsInput, warningsResult>>

\* a call with a positive budget (lines 102-131)
FilterWithBudget ==
    /\ ~filterResult.done
    /\ ~NoBudget(filterBudget)
    /\ filterResult' = [done |-> TRUE, out |-> FilterByBudget(filterComponents, filterBudget.n)]
    /\ UNCHANGED <<chatVars, pageVars, apiKey, orphans, serviceVars, parserInput, parserResult,
                   filterComponents, filterBudget,
                   policyInput, policyResult, warningsInput, warningsResult>>

SpecFilter == InitFilter /\ [][FilterWithoutBudget \/ FilterWithBudget]_vars

CountIn(cs, category) == Cardinality({i \in 1..Len(cs) : cs[i].Categoria = category})

\* C5: with a positive budget, the filter returns at most 20 components of
\* each category of the catalog, every one of them an entry of the catalog,
\* and no id twice.
C5_FilterBudgetBranch ==
    (filterResult.done /\ ~NoBudget(filterBudget)) =>
        LET out == filterResult.out
        IN  /\ \A i \in 1..Len(filterComponents) :
                  CountIn(out, filterComponents[i].Categoria) <= 20
            /\ \A i \in 1..Len(out) :
                  \E j \in 1..Len(filterComponents) : out[i] = filterComponents[j]
            /\ \A i, j \in 1..Len(out) : i # j => out[i].id # out[j].id

\* a category of more than 20 entries, and a repeated id, have been filtered
C5_Witness ==
    /\ filterResult.done /\ ~NoBudget(filterBudget)
    /\ CountIn(filterComponents, "Processadores") > 20
    /\ CountIn(filterResult.out, "Processadores") = 20
    /\ \E i, j \in 1..Len(filterComponents) :
          i # j /\ filterComponents[i].id = filterComponents[j].id

(***************************************************************************)
(* Properties of failed turns                                              *)
(***************************************************************************)
\* the response is null or invalid: not an object, or a required field is
\* missing or empty
InvalidResponse(r) == LacksRequiredField(r) \/ r.aiResponseText = Str(<<>>)

\* the step ends a turn in a recoverable failure
TurnFails ==
    \/ Settles /\ lastOutcome'.kind = "rejected"
    \/ Settles /\ lastOutcome'.kind = "fulfilled" /\ InvalidResponse(lastOutcome'.reply)
    \/ turns' # turns /\ ~apiKey

FailureTexts == {InvalidNotice, RateLimitNotice, GenericNotice}

\* C11: every recoverable turn failure (null or invalid response, rate
\* limit, any other oracle error) appends exactly one system notice and ends
\* with the busy flag cleared, so that the user can submit input again.
C11_FailureGivesOneNoticeAndFreesInput ==
    [][TurnFails =>
          /\ Cardinality({i \in 1..Len(Appended) :
                 Appended[i].sender = "system" /\ Appended[i].text \in FailureTexts}) = 1
          /\ Appended[Len(Appended)].sender = "system"
          /\ ~isLoading'
          /\ ~awaitingLocationPermission']_vars

\* after a rate-limited turn the form is rendered with its controls enabled
\* and the message the user typed passes the guard of handleSendMessage
C11_Witness ==
    /\ lastOutcome.kind = "rejected" /\ lastOutcome.error.code = RateLimitCode
    /\ messages[Len(messages)] = Msg("system", RateLimitNotice)
    /\ FormRendered /\ ControlsEnabled /\ SendGuard
    /\ calls = {}

(***************************************************************************)
(* The question flow of getLiveBuildResponse (lines 163-186): the history  *)
(* test that decides whether the location was handled, and the ordered     *)
(* list of questions of the instruction.                                   *)
(***************************************************************************)
\* String.prototype.toLowerCase, fragment by fragment
ToLowerCase(fragment) ==
    CASE fragment = "Usuario " -> "usuario "
      [] fragment = "Nao foi possivel detectar" -> "nao foi possivel detectar"
      [] fragment = "Nao foi possivel obter os dados climaticos"
            -> "nao foi possivel obter os dados climaticos"
      [] fragment = "Voce permitiu a deteccao." -> "voce permitiu a deteccao."
      [] fragment = "Localizacao detectada" -> "localizacao detectada"
      [] fragment = "Clima em" -> "clima em"
      [] fragment = "Estou recebendo muitas solicitacoes no momento."
            -> "estou recebendo muitas solicitacoes no momento."
      [] fragment = "Ola! Sou o CodeTuga" -> "ola! sou o codetuga"
      [] OTHER -> fragment

\* history.map(h => h.text).join('\n').toLowerCase() (line 164)
RECURSIVE HistoryTextLower(_)
HistoryTextLower(history) ==
    IF history = <<>> THEN <<>>
    ELSE [i \in 1..Len(Head(history).text) |-> ToLowerCase(Head(history).text[i])]
         \o (IF Len(history) > 1 THEN <<"\n">> ELSE <<>>)
         \o HistoryTextLower(Tail(history))

\* line 165
LocationAlreadyHandled(cidade, history) ==
    \/ Truthy(cidade)
    \/ Includes(HistoryTextLower(history), <<"nao permitiu deteccao automatica">>)
    \/ Includes(HistoryTextLower(history), <<"nao foi possivel detectar">>)

\* the location question comes before the owned-components question
QuestionFlowLocationFirst(p, handled) ==
    IF ~Truthy(p.orcamento) /\ ~Truthy(p.orcamentoRange) THEN "orcamento"
    ELSE IF ~Truthy(p.purpose) THEN "purpose"
    ELSE IF p.purpose = Str(<<"Jogos">>) /\ ~Truthy(p.gamingType) THEN "gamingType"
    ELSE IF p.purpose = Str(<<"Trabalho/Produtividade">>) /\ ~Truthy(p.workField)
         THEN "workField"
    ELSE IF p.purpose = Str(<<"Edicao Criativa">>) /\ ~Truthy(p.creativeEditingType)
         THEN "creativeEditingType"
    ELSE IF ~handled THEN "location"
    ELSE IF ~Truthy(p.ownedComponents) THEN "ownedComponents"
    ELSE IF ~Truthy(p.preferences) THEN "preferences"
    ELSE "confirm"

\* lines 177-186: the question the instruction selects
QuestionFlow(p, handled) ==
    IF ~Truthy(p.orcamento) /\ ~Truthy(p.orcamentoRange) THEN "orcamento"
    ELSE IF ~Truthy(p.purpose) THEN "purpose"
    ELSE IF p.purpose = Str(<<"Jogos">>) /\ ~Truthy(p.gamingType) THEN "gamingType"
    ELSE IF p.purpose = Str(<<"Trabalho/Produtividade">>) /\ ~Truthy(p.workField)
         THEN "workField"
    ELSE IF p.purpose = Str(<<"Edicao Criativa">>) /\ ~Truthy(p.creativeEditingType)
         THEN "creativeEditingType"
    ELSE IF ~Truthy(p.ownedComponents) THEN "ownedComponents"
    ELSE IF ~handled THEN "location"
    ELSE IF ~Truthy(p.preferences) THEN "preferences"
    ELSE "confirm"

\* the Preference Records the flow is applied to: the fields it reads
PolicyRecords ==
    [ orcamento : {Undef, Num(0), Num(300000)},
      orcamentoRange : {Undef, Str(<<"Medio [R$4-8k]">>)},
      purpose : {Undef, Str(<<"Jogos">>), Str(<<"Trabalho/Produtividade">>),
                 Str(<<"Edicao Criativa">>), Str(<<"Uso Geral">>)},
      gamingType : {Undef, Str(<<"Competitivos/eSports">>)},
      workField : {Undef, Str(<<"Desenvolvimento">>)},
      creativeEditingType : {Undef, Str(<<"Video">>)},
      ownedComponents : {Undef, Str(<<>>), Str(<<"gpu">>)},
      preferences : {Undef, Str(<<"silencioso">>)},
      cidade : {Undef, CityValue} ]

\* the histories it is applied to: a fresh conversation, a declined
\* permission, a grant that found no location, a grant that found the city
\* and whose oracle call succeeded or was rate-limited
PolicyHistories ==
    { <<>>,
      << Msg("ai", GreetingText), Msg("user", <<"a">>), Msg("ai", AiReplyText) >>,
      << Msg("system", DeclineNotice), Msg("ai", AskCityText) >>,
      << Msg("system", AllowNotice), Msg("system", NoLocationNotice), Msg("ai", AskCityText) >>,
      << Msg("system", AllowNotice), Msg("system", LocationNotice),
         Msg("system", WeatherNotice), Msg("ai", AiReplyText) >>,
      << Msg("system", AllowNotice), Msg("system", LocationNotice),
         Msg("system", NoWeatherNotice), Msg("system", RateLimitNotice) >> }

InitPolicy ==
    /\ ChatInit /\ apiKey /\ ServicesIdle /\ BudgetIdle /\ AuthIdle
    /\ ParserIdle /\ FilterIdle /\ WarningsIdle
    /\ policyInput \in [prefs : PolicyRecords, history : PolicyHistories]
    /\ policyResult = [done |-> FALSE, handled |-> FALSE, question |-> "none"]

\* lines 163-186: the instruction is built for a record and a history
SelectQuestion ==
    /\ ~policyResult.done
    /\ LET handled == LocationAlreadyHandled(policyInput.prefs.cidade, policyInput.history)
       IN  policyResult' = [done |-> TRUE, handled |-> handled,
                            question |-> QuestionFlow(policyInput.prefs, handled)]
    /\ UNCHANGED <<chatVars, pageVars, apiKey, orphans, serviceVars, parserInput, parserResult,
                   filterComponents, filterBudget, filterResult,
                   policyInput, warningsInput, warningsResult>>

SpecPolicy == InitPolicy /\ [][SelectQuestion]_vars

\* a field of the record is set
IsSet(v) == Truthy(v)

\* the user has granted or declined the location permission, or the record
\* holds a city
SideChannelResolved(p, history) ==
    \/ IsSet(p.cidade)
    \/ \E i \in 1..Len(history) :
          history[i] \in {Msg("system", AllowNotice), Msg("system", DeclineNotice)}

\* C12: the question flow never selects the question of a field that is
\* already set: budget, purpose, purpose-specific detail, owned components,
\* location consent (when the location is already handled), preferences.
C12_NeverAsksForSetField ==
    policyResult.done =>
        LET p == policyInput.prefs
            q == policyResult.question
        IN  /\ q = "orcamento" => ~IsSet(p.orcamento) /\ ~IsSet(p.orcamentoRange)
            /\ q \in {"purpose", "gamingType", "workField", "creativeEditingType",
                      "ownedComponents", "preferences"} => ~IsSet(p[q])
            /\ q = "location" => ~SideChannelResolved(p, policyInput.history)

\* the purpose-specific detail field of a record, "none" when its purpose has none
DetailField(p) ==
    CASE p.purpose = Str(<<"Jogos">>) -> "gamingType"
      [] p.purpose = Str(<<"Trabalho/Produtividade">>) -> "workField"
      [] p.purpose = Str(<<"Edicao Criativa">>) -> "creativeEditingType"
      [] OTHER -> "none"

StepOrder == <<"orcamento", "purpose", "detail", "ownedComponents", "location", "preferences">>

\* the governing field of a step is unset
StepOpen(step, p, handled) ==
    CASE step = "orcamento" -> ~IsSet(p.orcamento) /\ ~IsSet(p.orcamentoRange)
      [] step = "detail" -> DetailField(p) # "none" /\ ~IsSet(p[DetailField(p)])
      [] step = "location" -> ~handled
      [] OTHER -> ~IsSet(p[step])

QuestionOfCall(c) ==
    LET p == c.currentData
    IN  QuestionFlow([ orcamento |-> p.orcamento, orcamentoRange |-> Undef,
                       purpose |-> p.perfilPC.v, gamingType |-> Undef, workField |-> Undef,
                       creativeEditingType |-> Undef, ownedComponents |-> p.ownedComponents,
                       preferences |-> Undef, cidade |-> p.ambiente.v ],
                     LocationAlreadyHandled(p.ambiente.v, c.history))

\* C14: starting with an empty Preference Record and no budget, the first
\* question selected is the budget question and the Build has no components
\* after that first turn.
C14_FirstTurnAsksBudgetAndSelectsNothing ==
    [][\A c \in calls \ calls' :
          (/\ c.id = 1 /\ c.currentData = EmptyPrefs
           /\ lastOutcome'.kind = "fulfilled" /\ AppendsFrom("ai"))
          => /\ QuestionOfCall(c) = "orcamento"
             /\ Len(currentBuild'.componentes) = 0]_vars

\* the first half alone: the first call of a conversation that starts with
\* an empty record selects the budget question
FirstCallAsksBudget ==
    \A c \in calls : (c.id = 1 /\ c.currentData = EmptyPrefs) => QuestionOfCall(c) = "orcamento"

(***************************************************************************)
(* Properties of the Build a successful turn produces                      *)
(***************************************************************************)
\* the step ends a turn whose response passed validation and carries a list
\* of identifiers: the Build is updated from it
BuildsFrom(r) ==
    /\ Settles /\ lastOutcome' = Outcome("fulfilled", NoErr, r)
    /\ ~InvalidResponse(r) /\ r.recommendedComponentIds.t = "array"

CatalogIds == {AvailableComponents[i].id : i \in 1..Len(AvailableComponents)}
PriceOf(id) == (CHOOSE c \in {AvailableComponents[i] : i \in 1..Len(AvailableComponents)} :
                    c.id = id).Preco

\* the sum of the catalog prices of the identifiers that resolve
RECURSIVE ExactSum(_, _)
ExactSum(ids, n) ==
    IF n = 0 THEN 0
    ELSE ExactSum(ids, n - 1) + (IF ids[n] \in CatalogIds THEN PriceOf(ids[n]) ELSE 0)

\* C15: when the response declares no total, the total of the Build is the
\* exact sum of the prices of the resolved components; identifiers that do
\* not resolve contribute nothing.
C15_UndeclaredTotalIsExactSum ==
    [][\A r \in {lastOutcome'.reply} :
          (BuildsFrom(r) /\ r.estimatedTotalPrice = Undef)
          => currentBuild'.orcamento =
                Num(ExactSum(r.recommendedComponentIds.ids, Len(r.recommendedComponentIds.ids)))]_vars

\* identifiers c1 (899.00), zz (unknown) and c2 (459.00) without a declared
\* total gave a Build of 1358.00
C15_Witness ==
    /\ lastOutcome.kind = "fulfilled"
    /\ lastOutcome.reply.recommendedComponentIds = Ids(<<"c1", "zz", "c2">>)
    /\ lastOutcome.reply.estimatedTotalPrice = Undef
    /\ ~currentBuild.null /\ currentBuild.orcamento = Num(135800)

\* C16: the total of the Build is the declared estimatedTotalPrice when it
\* is present and numeric, and the sum of the resolved components' prices in
\* every other case (absent, null, present but not a number).
C16_DeclaredTotalOnlyIfNumeric ==
    [][\A r \in {lastOutcome'.reply} :
          BuildsFrom(r)
          => currentBuild'.orcamento =
                IF r.estimatedTotalPrice.t = "number" THEN r.estimatedTotalPrice
                ELSE Num(ExactSum(r.recommendedComponentIds.ids,
                                  Len(r.recommendedComponentIds.ids)))]_vars

\* the positions of a list whose identifier resolves in the catalog
ResolvingPositions(ids) == {i \in 1..Len(ids) : ids[i] \in CatalogIds}

\* C17: the components of the Build are exactly the catalog records of the
\* identifiers that resolve, in list order; identifiers that do not resolve
\* are dropped and never make the turn fail; every component of a Build is
\* a record of the catalog.
C17_BuildHoldsResolvedRecordsInOrder ==
    [][\A r \in {lastOutcome'.reply} :
          BuildsFrom(r)
          => LET ids == r.recommendedComponentIds.ids
                 cs == currentBuild'.componentes
                 pos == ResolvingPositions(ids)
             IN  /\ Len(cs) = Cardinality(pos)
                 /\ \A i \in pos :
                       cs[Cardinality({j \in pos : j <= i})].id = ids[i]
                 /\ \A k \in 1..Len(cs) :
                       \E j \in 1..Len(AvailableComponents) : cs[k] = AvailableComponents[j]
                 /\ ~AppendsFrom("system")]_vars

\* a list whose first identifier is unknown gave a Build of one component
C17_Witness ==
    /\ lastOutcome.kind = "fulfilled"
    /\ lastOutcome.reply.recommendedComponentIds = Ids(<<"zz", "c2">>)
    /\ ~currentBuild.null
    /\ currentBuild.componentes = << Comp("c2", "SSD", 45900) >>
    /\ messages[Len(messages)].sender = "ai"

(***************************************************************************)
(* The compatibility warnings of handleBuildUpdate (BuildPage lines        *)
(* 369-373).  A justification is a sequence of tokens: the marker as the   *)
(* instruction writes it or in lower case, the line break "\n", the space, *)
(* the dash "-" and a word "w"; <<>> is an absent or empty justification.  *)
(***************************************************************************)
MaxJustLen == 5

\* the marker of warningsRegex, which carries the i flag
IsMarker(tok) == tok \in {"Avisos de Compatibilidade:", "avisos de compatibilidade:"}

\* warningsMatch[1]: the text after the first marker
AfterMarker(text) ==
    LET first == CHOOSE i \in 1..Len(text) :
                     IsMarker(text[i]) /\ \A j \in 1..(i - 1) : ~IsMarker(text[j])
    IN  SubSeq(text, first + 1, Len(text))

\* String.prototype.trim of a text with line breaks
RECURSIVE TrimBlank(_)
TrimBlank(str) ==
    IF str # <<>> /\ Head(str) \in {" ", "\n"} THEN TrimBlank(Tail(str))
    ELSE IF str # <<>> /\ str[Len(str)] \in {" ", "\n"}
         THEN TrimBlank(SubSeq(str, 1, Len(str) - 1))
    ELSE str

\* split('\n'); line is the line being read
RECURSIVE SplitLines(_, _)
SplitLines(str, line) ==
    IF str = <<>> THEN <<line>>
    ELSE IF Head(str) = "\n" THEN <<line>> \o SplitLines(Tail(str), <<>>)
    ELSE SplitLines(Tail(str), Append(line, Head(str)))

\* w.replace(/^- /, '').trim()
StripItem(line) ==
    Trim(IF Len(line) >= 2 /\ line[1] = "-" /\ line[2] = " "
         THEN SubSeq(line, 3, Len(line)) ELSE line)

\* .map(...).filter(Boolean)
RECURSIVE MapAndFilter(_)
MapAndFilter(lines) ==
    IF lines = <<>> THEN <<>>
    ELSE (IF StripItem(Head(lines)) # <<>> THEN <<StripItem(Head(lines))>> ELSE <<>>)
         \o MapAndFilter(Tail(lines))

\* lines 369-373: avisos_compatibilidade of the updated Build
Warnings(update, base) ==
    LET justificationText == IF update # <<>> THEN update ELSE base
        warningsText == IF \E i \in 1..Len(justificationText) : IsMarker(justificationText[i])
                        THEN TrimBlank(AfterMarker(justificationText)) ELSE <<>>
    IN  IF warningsText # <<>> THEN MapAndFilter(SplitLines(warningsText, <<>>)) ELSE <<>>

\* the justification of the response is any text of at most MaxJustLen
\* tokens or an overview followed by two listed warnings; the Build updated
\* has no justification or one that lists a warning
InitWarnings ==
    /\ ChatInit /\ apiKey /\ ServicesIdle /\ BudgetIdle /\ AuthIdle
    /\ ParserIdle /\ FilterIdle /\ PolicyIdle
    /\ LET tokens == {"Avisos de Compatibilidade:", "avisos de compatibilidade:",
                      "\n", " ", "-", "w"}
           listed == <<"w", "\n", "\n", "Avisos de Compatibilidade:", "\n",
                       "-", " ", "w", " ", "w", "\n", "-", " ", "w">>
           indented == <<"Avisos de Compatibilidade:", "\n", "-", " ", "w", "\n",
                         " ", "-", " ", "w">>
       IN  warningsInput \in
               [update : UNION {[1..n -> tokens] : n \in 0..MaxJustLen} \cup {listed, indented},
                base : {<<>>, <<"Avisos de Compatibilidade:", "\n", "-", " ", "w">>}]
    /\ warningsResult = [done |-> FALSE, out |-> <<>>, justificativa |-> <<>>]

ExtractWarnings ==
    /\ ~warningsResult.done
    /\ warningsResult' = [done |-> TRUE,
                          out |-> Warnings(warningsInput.update, warningsInput.base),
                          \* lines 375-377: the update's justificativa, set or
                          \* undefined (ChatbotAnamnesis line 110), replaces the base's
                          justificativa |-> warningsInput.update]
    /\ UNCHANGED <<chatVars, pageVars, apiKey, orphans, serviceVars, parserInput, parserResult,
                   filterComponents, filterBudget, filterResult,
                   policyInput, policyResult, warningsInput>>

SpecWarnings == InitWarnings /\ [][ExtractWarnings]_vars

\* the text of a list item: the line without its indentation, its "- " and
\* the blanks around what is left
ItemText(line) ==
    LET item == TrimLeft(line)
    IN  Trim(IF Len(item) >= 2 /\ item[1] = "-" /\ item[2] = " "
             THEN SubSeq(item, 3, Len(item)) ELSE item)

RECURSIVE ListedWarnings(_)
ListedWarnings(lines) ==
    IF lines = <<>> THEN <<>>
    ELSE (IF ItemText(Head(lines)) # <<>> THEN <<ItemText(Head(lines))>> ELSE <<>>)
         \o ListedWarnings(Tail(lines))

\* C18: the warnings of the updated Build are the empty list when the
\* justification that handleBuildUpdate reads (the update's, or the previous
\* Build's when the update has none) has no marker, and otherwise they are
\* the non-empty lines of the text after the marker, one warning a line,
\* each without its leading list-item punctuation.
C18_WarningsAreListedLines ==
    warningsResult.done =>
        LET just == IF warningsInput.update # <<>> THEN warningsInput.update
                    ELSE warningsInput.base
        IN  warningsResult.out =
                IF \E i \in 1..Len(just) : IsMarker(just[i])
                THEN ListedWarnings(SplitLines(AfterMarker(just), <<>>))
                ELSE <<>>


(***************************************************************************)
(* A new build: resetBuildState (BuildPage lines 97-108) empties the page  *)
(* and navigates with a new timestamp, which is the key of the chat        *)
(* (lines 447-452): React unmounts the chat and mounts another one.  The   *)
(* promises of the unmounted chat stay pending, and their continuations    *)
(* hold the onBuildUpdate of the page (useCallback with no dependencies).  *)
(***************************************************************************)
\* the unmounted chat leaves its pending calls, and the call its grant flow
\* makes when the city is found (lines 182-196), which needs the API key
ResetBuildState ==
    /\ currentBuild' = NoBuild
    /\ pagePreferencias' = NullPrefs
    /\ isBuildComplete' = FALSE
    /\ \E g \in IF geo.phase = "weather" /\ apiKey THEN {{geo.currentPrefs}}
                ELSE IF geo.phase = "locating" /\ apiKey
                     THEN {{}, {[geo.currentPrefs EXCEPT !.ambiente = Sub(CityValue)]}}
                ELSE {{}} :
           orphans' = orphans \cup {c.currentData : c \in calls} \cup g
    \* the chat mounted with initialAnamnesisData = preferencias || {...}
    /\ messages' = << Msg("ai", GreetingText) >>
    /\ userInput' = <<>>
    /\ isLoading' = FALSE
    /\ preferencias' = InitialAnamnesisData
    /\ awaitingLocationPermission' = FALSE
    /\ locationProcessed' = Truthy(InitialAnamnesisData.ambiente.v)
    /\ startTimer' = "armed"
    /\ rendered' = Snapshot(<<>>, FALSE, FALSE, Truthy(InitialAnamnesisData.ambiente.v),
                            InitialAnamnesisData)
    /\ calls' = {}
    /\ geo' = GeoIdle
    /\ lastOutcome' = NoOutcome
    /\ UNCHANGED <<turns, apiKey, pureVars, serviceVars>>

\* a call of an unmounted chat settles: its state setters do nothing, and a
\* valid response reaches handleBuildUpdate (callLiveBuilder lines 91-113);
\* a rejection leaves the page as an invalid response does
OrphanSettles(o, r) ==
    /\ o \in orphans
    /\ orphans' = orphans \ {o}
    /\ IF ResponseIsValid(r) /\ r.recommendedComponentIds.t # "string"
       THEN LET updated == NormalizedPreferencias(r.updatedPreferencias.v)
                cs == RecommendedComponents(r.recommendedComponentIds.ids)
            IN  /\ currentBuild' = UpdatedBuild(cs, TotalPrice(r.estimatedTotalPrice, cs),
                                                r.justification, updated)
                /\ pagePreferencias' = PagePrefs(updated)
                /\ isBuildComplete' = (Len(cs) > 0)
       ELSE UNCHANGED pageVars
    /\ UNCHANGED <<chatVars, apiKey, pureVars, serviceVars>>

SpecReset ==
    Init /\ [][\/ Next
               \/ ResetBuildState
               \/ \E o \in orphans : \E r \in OracleReplies(o) : OrphanSettles(o, r)]_vars

\* the page holds no Build and no Preference Record
PageEmpty == currentBuild.null /\ pagePreferencias.null /\ ~isBuildComplete

\* the chat as it is mounted: no message but its own greeting, nothing
\* typed, an empty Preference Record, the side-channel unresolved, no call
\* pending and no grant flow under way
ChatFresh ==
    /\ messages = << Msg("ai", GreetingText) >> /\ rendered.messages = <<>>
    /\ userInput = <<>>
    /\ preferencias = EmptyPrefs /\ rendered.preferencias = EmptyPrefs
    /\ ~locationProcessed /\ ~awaitingLocationPermission
    /\ ~isLoading /\ calls = {} /\ geo.phase = "idle"

\* C19: a new build leaves the page without Build and Preference Record and
\* the chat as a newly mounted one, and nothing of the conversation before
\* it is used afterwards: the page's Build and Preference Record change
\* only when a turn of the mounted chat ends or with another new build.
C19_NewBuildIsFresh ==
    [][/\ ResetBuildState => (PageEmpty' /\ ChatFresh')
       /\ (pageVars' # pageVars) => (ResetBuildState \/ Settles)]_vars

\* the first half alone: the state right after the new build
C19_FreshRightAfter == [][ResetBuildState => (PageEmpty' /\ ChatFresh')]_vars


(***************************************************************************)
(* Progress of the grant flow.  The promises of getUserLocation and        *)
(* getCityWeather settle (with a value or null), the promise of            *)
(* getLiveBuildResponse settles, and React commits the updates it has      *)
(* been given.                                                             *)
(***************************************************************************)
SpecLive ==
    /\ Spec
    /\ WF_vars(\E loc \in GeoAnswers : LocationResolved(loc))
    /\ WF_vars(\E found \in BOOLEAN : WeatherResolved(found))
    /\ WF_vars(\E c \in calls :
                  \/ \E e \in OracleErrors : OracleRejects(c, e)
                  \/ \E r \in OracleReplies(c.currentData) :
                         OracleReturnsInvalid(c, r) \/ OracleReturnsValid(c, r))
    /\ WF_vars(Render)

\* the step appends the notice
Notifies(text) == \E i \in 1..Len(Appended) : Appended[i] = Msg("system", text)

\* C20: after the grant, a location lookup without a city ends the flow with
\* the busy flag cleared, the engine not awaiting the permission and no
\* oracle call made; a weather lookup that returns null ends the flow with
\* exactly one oracle call made; and a grant flow under way always leads to
\* an engine that is not busy with the flow ended.
C20_NullLookupsDoNotHalt ==
    /\ [][/\ Notifies(NoLocationNotice)
             => /\ geo.phase = "locating" /\ geo'.phase = "idle"
                /\ ~isLoading' /\ ~awaitingLocationPermission'
                /\ turns' = turns /\ calls' = calls
          /\ Notifies(NoWeatherNotice)
             => /\ geo.phase = "weather" /\ geo'.phase = "idle"
                /\ turns' = turns + 1
                /\ apiKey => Cardinality(calls' \ calls) = 1 /\ isLoading']_vars
    /\ (geo.phase # "idle") ~> (geo.phase = "idle" /\ ~isLoading)

\* both have happened in one conversation: a flow ended for want of weather
\* data, a later one for want of a city, and the engine is not busy
C20_Witness ==
    /\ \E i \in 1..Len(messages) : messages[i] = Msg("system", NoWeatherNotice)
    /\ \E i \in 1..Len(messages) : messages[i] = Msg("system", NoLocationNotice)
    /\ geo.phase = "idle" /\ ~isLoading /\ ~awaitingLocationPermission


(***************************************************************************)
(* The component catalog (componentService lines 92-132).  An array is a   *)
(* record of its identity (the number of the load that made it) and its    *)
(* items; COMPONENTS_DATA is the catalog of the conversation.              *)
(***************************************************************************)
MaxCatalogCalls == 4

\* lines 104-123: the cache is returned when there is one, else the data
\* are processed into a new array, which is cached and returned
GetComponents ==
    /\ catalogCalls.calls < MaxCatalogCalls
    /\ LET loaded == [null |-> FALSE, id |-> catalogCalls.loads + 1,
                      items |-> AvailableComponents]
       IN  IF ~componentCache.null
           THEN /\ catalogCalls' = [catalogCalls EXCEPT !.calls = @ + 1,
                                                        !.returned = componentCache]
                /\ UNCHANGED componentCache
           ELSE /\ componentCache' = loaded
                /\ catalogCalls' = [catalogCalls EXCEPT !.calls = @ + 1, !.loads = @ + 1,
                                                        !.returned = loaded]
    /\ UNCHANGED <<chatVars, pageVars, apiKey, orphans, pureVars, budgetCall, auth>>

\* lines 130-132
ClearComponentsCache ==
    /\ componentCache' = [null |-> TRUE, id |-> 0, items |-> <<>>]
    /\ UNCHANGED <<chatVars, pageVars, apiKey, orphans, pureVars, catalogCalls, budgetCall, auth>>

\* the array handed to preFilterComponents is sorted in place
ComponentsAfterTurnSorted(components, budget) ==
    IF NoBudget(budget) THEN components ELSE SortedComponents(components, budget.n)

\* what a turn leaves in the array it was given: preFilterComponents reads
\* its length, copies it ([...components]) and filters it, and sorts and
\* slices the copies (geminiService lines 95-131); the projection builds a
\* Map from it and reads the Map (ChatbotAnamnesis lines 99-102)
ComponentsAfterTurn(components, budget) == components

\* a turn with the array that getComponents returned: the filter for the
\* budget of the record, then the projection of the ids recommended
TurnUsesCatalog(budget, ids) ==
    /\ ~catalogCalls.returned.null
    /\ LET components == catalogCalls.returned.items
           after == ComponentsAfterTurn(components, budget)
       IN  /\ catalogCalls' =
                  [catalogCalls EXCEPT
                      !.returned.items = after,
                      !.out = <<IF NoBudget(budget) THEN components
                                ELSE FilterByBudget(components, budget.n),
                                RecommendedComponents(ids)>>]
           \* the cache is the same array when it has the same identity
           /\ componentCache' =
                  IF ~componentCache.null /\ componentCache.id = catalogCalls.returned.id
                  THEN [componentCache EXCEPT !.items = after]
                  ELSE componentCache
    /\ UNCHANGED <<chatVars, pageVars, apiKey, orphans, pureVars, budgetCall, auth>>

SpecCache ==
    Init /\ [][\/ GetComponents
               \/ ClearComponentsCache
               \/ \E budget \in {Undef, Num(100000), Num(500000)} :
                     \E ids \in {<<>>, <<"c1">>, <<"c2", "c1">>} : TurnUsesCatalog(budget, ids)]_vars

\* C21: a call of getComponents that finds a cached catalog returns that
\* same array and loads nothing; the data are loaded only when nothing is
\* cached (no call has succeeded yet, or clearComponentsCache has run since);
\* and the cached catalog and its records change with no step but a load
\* and a clearComponentsCache, so a turn leaves them as they were.
C21_CatalogLoadedOnceAndReadOnly ==
    [][/\ (catalogCalls'.calls # catalogCalls.calls /\ ~componentCache.null)
          => /\ catalogCalls'.returned = componentCache
             /\ catalogCalls'.loads = catalogCalls.loads
             /\ componentCache' = componentCache
       /\ catalogCalls'.loads # catalogCalls.loads => componentCache.null
       /\ componentCache' # componentCache => (componentCache.null \/ componentCache'.null)]_vars

\* a second call has returned the array of the first load, after a turn with
\* a budget had filtered it and projected two ids onto it
C21_Witness ==
    /\ catalogCalls.calls = 2 /\ catalogCalls.loads = 1
    /\ catalogCalls.returned = componentCache /\ ~componentCache.null
    /\ Len(catalogCalls.out) = 2 /\ Len(catalogCalls.out[2]) = 2


(***************************************************************************)
(* The ranking of the budget branch                                        *)
(***************************************************************************)
\* the catalog entry at position i is in the result
Kept(i) == \E k \in 1..Len(filterResult.out) : filterResult.out[k] = filterComponents[i]
\* a component with the id of the entry at position i is in the result
IdKept(i) == \E k \in 1..Len(filterResult.out) : filterResult.out[k].id = filterComponents[i].id

\* how far the price of a component is from the target price of its
\* category, the budget times the proportion (in hundredths)
Distance(c) ==
    LET target == filterBudget.n * BudgetDistribution(c.Categoria)
    IN  IF c.Preco * 100 >= target THEN c.Preco * 100 - target ELSE target - c.Preco * 100

\* C22 as stated: with a budget above 0, no component left out is strictly
\* closer to the target price of its category than a kept component of that
\* category, and a category of at most 20 components is kept whole.
C22_KeepsClosest ==
    (filterResult.done /\ ~NoBudget(filterBudget)) =>
        \A i \in 1..Len(filterComponents) :
            /\ CountIn(filterComponents, filterComponents[i].Categoria) <= 20 => Kept(i)
            /\ \A j \in 1..Len(filterComponents) :
                  (/\ filterComponents[i].Categoria = filterComponents[j].Categoria
                   /\ ~Kept(i) /\ Kept(j))
                  => Distance(filterComponents[i]) >= Distance(filterComponents[j])

\* C22 amended: the same for the components whose id no kept component
\* carries; a component is also left out when its id is already kept.
C22_KeepsClosestOfNewIds ==
    (filterResult.done /\ ~NoBudget(filterBudget)) =>
        \A i \in 1..Len(filterComponents) :
            /\ CountIn(filterComponents, filterComponents[i].Categoria) <= 20 => IdKept(i)
            /\ \A j \in 1..Len(filterComponents) :
                  (/\ filterComponents[i].Categoria = filterComponents[j].Categoria
                   /\ ~IdKept(i) /\ Kept(j))
                  => Distance(filterComponents[i]) >= Distance(filterComponents[j])

\* 22 processors in rising prices were ranked for a target price of 2000:
\* the two cheapest are left out, and a monitor, in no row of the proportion
\* table, is kept
C22_Witness ==
    /\ filterResult.done /\ filterBudget = Num(1000000)
    /\ CountIn(filterComponents, "Processadores") = 22
    /\ CountIn(filterResult.out, "Processadores") = 20
    /\ CountIn(filterResult.out, "Monitor") >= 1
    /\ ~Kept(1) /\ ~Kept(2) /\ Kept(22)

\* how many entries of cs equal c
Occurrences(cs, c) == Cardinality({i \in 1..Len(cs) : cs[i] = c})

\* C23: with no budget, or a budget of 0 or less, the filter returns the
\* catalog as it is when it has at most 160 components, and otherwise 160
\* components, each an entry of the catalog and none more often than the
\* catalog holds it.
C23_WholeCatalogOrSample ==
    (filterResult.done /\ (filterBudget = Undef \/ filterBudget.n <= 0)) =>
        LET out == filterResult.out
        IN  IF Len(filterComponents) <= 160 THEN out = filterComponents
            ELSE /\ Len(out) = 160
                 /\ \A k \in 1..Len(out) :
                       /\ Occurrences(filterComponents, out[k]) >= 1
                       /\ Occurrences(out, out[k]) <= Occurrences(filterComponents, out[k])

\* a catalog of 162 entries with a negative budget was sampled: the sample
\* starts in the middle of the catalog and leaves its first entry out
C23_Witness ==
    /\ filterResult.done /\ filterBudget = Num(-100000)
    /\ Len(filterComponents) = 162 /\ Len(filterResult.out) = 160
    /\ filterResult.out[1] # filterComponents[1]
    /\ Occurrences(filterResult.out, filterComponents[1]) = 0


(***************************************************************************)
(* The budget of the record returned by getLiveBuildResponse (lines        *)
(* 232-241).  A budget text is a sequence of characters, "R$" standing for *)
(* any text that is neither a digit, a dot nor a comma.                    *)
(***************************************************************************)
MaxBudgetLen == 5

\* lines 232-241, for the orcamento of the parsed updatedPreferencias
NormalizeBudget ==
    /\ ~budgetCall.done
    /\ budgetCall' = [budgetCall EXCEPT !.done = TRUE,
                                        !.out = NormalizeOrcamento(budgetCall.in)]
    /\ UNCHANGED <<chatVars, pageVars, apiKey, orphans, pureVars, componentCache, catalogCalls, auth>>

\* the oracle gives no budget, a number, or a text of at most MaxBudgetLen
\* characters
InitBudget ==
    /\ ChatInit /\ apiKey /\ ServicesIdle /\ AuthIdle
    /\ ParserIdle /\ FilterIdle /\ PolicyIdle /\ WarningsIdle
    /\ budgetCall \in
           [in : {Undef, Num(0), Num(300000)}
                 \cup {Str(s) : s \in UNION {[1..n -> {"0", "1", "5", ".", ",", "R$"}] :
                                                n \in 0..MaxBudgetLen}},
            done : {FALSE}, out : {Undef}]

SpecBudget == InitBudget /\ [][NormalizeBudget]_vars

\* the budget text is a number in the locale's format: groups of digits,
\* those after the first of three digits and set off by dots, then
\* optionally a comma and one or two digits
LocaleNumber(s) ==
    \E c \in 1..(Len(s) + 1) :
        /\ c > 1 /\ c # Len(s)
        /\ c <= Len(s) => s[c] = "," /\ Len(s) - c <= 2
        /\ \A i \in (c + 1)..Len(s) : s[i] \in {"0", "1", "5"}
        /\ s[1] \in {"1", "5"}
        /\ \A i \in 1..(c - 1) :
              s[i] \in {"0", "1", "5", "."}
              /\ (s[i] = "." <=> (i < c - 1 /\ (c - i) % 4 = 0))

\* the number it denotes, in centavos
LocaleValue(s) ==
    LET c == IF \E i \in 1..Len(s) : s[i] = ","
             THEN CHOOSE i \in 1..Len(s) : s[i] = "," ELSE Len(s) + 1
        digits == SelectSeq(SubSeq(s, 1, c - 1), IsDigit)
        frac == SubSeq(s, c + 1, Len(s))
    IN  DigitsValue(digits) * 100
        + (IF Len(frac) = 1 THEN DigitVal(frac[1]) * 10
           ELSE IF Len(frac) = 2 THEN DigitVal(frac[1]) * 10 + DigitVal(frac[2]) ELSE 0)

\* C24: the budget of the record returned for a successful turn is absent
\* or a number; a text in the locale's number format has become the number
\* it denotes, and any other text that was not normalized, the empty one
\* included, has been dropped.
C24_BudgetAbsentOrNumber ==
    budgetCall.done =>
        /\ budgetCall.out = Undef \/ budgetCall.out.t = "number"
        /\ (budgetCall.in.t = "string" /\ LocaleNumber(budgetCall.in.s))
           => budgetCall.out = Num(LocaleValue(budgetCall.in.s))

\* the part about the texts in the locale's format
C24_LocaleTextsBecomeNumbers ==
    (budgetCall.done /\ budgetCall.in.t = "string" /\ LocaleNumber(budgetCall.in.s))
    => budgetCall.out = Num(LocaleValue(budgetCall.in.s))

\* the part about the texts that are not empty
C24_OtherTextsDropped ==
    (budgetCall.done /\ budgetCall.in.t = "string" /\ budgetCall.in.s # <<>>)
    => (budgetCall.out = Undef \/ budgetCall.out.t = "number")


(***************************************************************************)
(* The history of a request (ChatbotAnamnesis lines 61-62, 73-75, 90)      *)
(***************************************************************************)
\* no message of ms is removed, moved or changed in ns
Extends(ns, ms) == Len(ns) >= Len(ms) /\ SubSeq(ns, 1, Len(ms)) = ms

\* the messages made before the request c of this step, the one that
\* carries its input left out
MadeBeforeRequest(c) ==
    IF messages' # <<>> /\ messages'[Len(messages')] = Msg("user", c.input)
    THEN SubSeq(messages', 1, Len(messages') - 1)
    ELSE messages'

C26_StartRequestIssued ==
    /\ <>(startTimer = "fired")
    /\ [](Cardinality({c \in calls : c.input = StartInput}) <= 1)

\* the part that holds: the start request is not issued twice
C26_StartRequestAtMostOnce ==
    [][startTimer = "fired" => startTimer' = "fired"]_vars


(***************************************************************************)
(* Responses that arrive after a new build was started                     *)
(***************************************************************************)
\* C27: when a request issued before resetBuildState settles, the page's
\* Build and Preference Record stay as they are; they are empty until a
\* turn of the new conversation succeeds.
C27_OldResponseLeavesPage ==
    [][(orphans' \subseteq orphans /\ orphans' # orphans)
       => (currentBuild' = currentBuild /\ pagePreferencias' = pagePreferencias)]_vars


(***************************************************************************)
(* The detected city (ChatbotAnamnesis lines 164-208)                      *)
(***************************************************************************)
\* the notice of line 180 has been added: a city was detected
CityDetected == \E i \in 1..Len(messages) : messages[i] = Msg("system", LocationNotice)

\* C28: once a city was detected and the turn that follows the detection
\* has ended, with a response or with a failure, the Preference Record of
\* the chat holds that city.
C28_DetectedCityKept ==
    (CityDetected /\ geo.phase = "idle" /\ calls = {})
    => preferencias.ambiente.v = CityValue


(***************************************************************************)
(* The warnings and the justification of the updated Build                 *)
(***************************************************************************)
\* C29: after handleBuildUpdate the Build's avisos_compatibilidade are the
\* warnings extracted from the justificativa that Build has, and there are
\* none when it has no justificativa.
C29_WarningsOfOwnJustification ==
    warningsResult.done =>
        /\ warningsResult.out = Warnings(warningsResult.justificativa, <<>>)
        /\ warningsResult.justificativa = <<>> => warningsResult.out = <<>>


(***************************************************************************)
(* Save and export around a login (BuildPage lines 314-341, 343-346,       *)
(* 395-406; AuthContext handleAuthSuccessNavigation).  A Build is known by *)
(* a number, 0 standing for none; the page's Preference Record is set and  *)
(* stored together with its Build.  executed lists the calls of            *)
(* executeActualSaveBuild and executeActualExportBuild.                    *)
(***************************************************************************)
MaxExecuted == 2

\* handleBuildUpdate gives the page a Build
BuildUpdated(b) ==
    /\ auth.route = "build" /\ ~auth.modal
    /\ b # auth.build
    /\ auth' = [auth EXCEPT !.build = b]
    /\ UNCHANGED <<chatVars, pageVars, apiKey, orphans, pureVars,
                   componentCache, catalogCalls, budgetCall>>

\* lines 395-406
TriggerAuthenticatedAction(action) ==
    /\ auth.route = "build" /\ ~auth.modal
    /\ auth.build # 0
    /\ IF ~auth.user
       THEN auth' = [auth EXCEPT !.pendingBuild = auth.build,
                                 !.pendingActionForAuth = action,
                                 !.modal = TRUE]
       ELSE /\ Len(auth.executed) < MaxExecuted
            /\ auth' = [auth EXCEPT !.executed = Append(@, <<action, auth.build>>)]
    /\ UNCHANGED <<chatVars, pageVars, apiKey, orphans, pureVars,
                   componentCache, catalogCalls, budgetCall>>

\* lines 343-346: the page is left for /login, with the pending action in
\* the navigation state; its own state and its timer go with it
HandleLoginForBuild ==
    /\ auth.modal
    /\ auth' = [auth EXCEPT !.modal = FALSE, !.route = "login",
                            !.fromLogin = FALSE, !.action = auth.pendingActionForAuth,
                            !.build = 0, !.pendingActionForAuth = "none",
                            !.timer = IF @ = "armed" THEN "cleared" ELSE @]
    /\ UNCHANGED <<chatVars, pageVars, apiKey, orphans, pureVars,
                   componentCache, catalogCalls, budgetCall>>

\* lines 347-351
HandleContinueAnonymously ==
    /\ auth.modal
    /\ auth' = [auth EXCEPT !.modal = FALSE, !.anonymous = TRUE]
    /\ UNCHANGED <<chatVars, pageVars, apiKey, orphans, pureVars,
                   componentCache, catalogCalls, budgetCall>>

\* the login succeeds; handleAuthSuccessNavigation returns to /build, with
\* state { fromLogin, action } when a pending action came along
LoginSucceeds ==
    /\ auth.route = "login"
    /\ auth' = [auth EXCEPT !.user = TRUE, !.route = "build",
                            !.fromLogin = (auth.action # "none")]
    /\ UNCHANGED <<chatVars, pageVars, apiKey, orphans, pureVars,
                   componentCache, catalogCalls, budgetCall>>

\* lines 315-317: the effect opens the dialog for a visitor without a
\* Build who has not chosen to go on without an account (the catalog is
\* loaded)
AuthInfoShown ==
    /\ ~auth.user /\ auth.route = "build"
    /\ ~auth.anonymous /\ auth.build = 0
    /\ ~auth.modal
    /\ auth' = [auth EXCEPT !.modal = TRUE]
    /\ UNCHANGED <<chatVars, pageVars, apiKey, orphans, pureVars,
                   componentCache, catalogCalls, budgetCall>>

\* lines 318-339: the effect finds the stored Build, shows it, arms the
\* 100 ms timer of the action, empties the storage and replaces the
\* navigation state by {}
PostLoginEffect ==
    /\ auth.user /\ auth.route = "build"
    /\ auth.fromLogin /\ auth.action # "none"
    /\ auth.pendingBuild # 0
    /\ auth' = [auth EXCEPT !.build = auth.pendingBuild, !.timer = "armed",
                            !.pendingBuild = 0, !.pendingActionForAuth = "none",
                            !.fromLogin = FALSE]
    /\ UNCHANGED <<chatVars, pageVars, apiKey, orphans, pureVars,
                   componentCache, catalogCalls, budgetCall>>

\* the commit of setCurrentBuild and of the navigation changes currentBuild
\* and location, both dependencies of the effect (line 341): its cleanup
\* (line 338) clears the timer, and the effect, run again, finds no
\* fromLogin
AuthRender ==
    /\ auth.timer = "armed"
    /\ auth' = [auth EXCEPT !.timer = "cleared", !.action = "none"]
    /\ UNCHANGED <<chatVars, pageVars, apiKey, orphans, pureVars,
                   componentCache, catalogCalls, budgetCall>>

\* lines 329-332: the timer's callback, with the Build read from the storage
PendingTimerFires ==
    /\ auth.timer = "armed"
    /\ auth' = [auth EXCEPT !.timer = "fired", !.action = "none",
                            !.executed = Append(@, <<auth.action, auth.build>>)]
    /\ UNCHANGED <<chatVars, pageVars, apiKey, orphans, pureVars,
                   componentCache, catalogCalls, budgetCall>>

\* React commits what it has been given, effects run after a commit, and
\* an armed timer that is not cleared fires
SpecAuth ==
    /\ Init
    /\ [][\/ \E b \in 1..2 : BuildUpdated(b)
          \/ \E action \in {"save", "export"} : TriggerAuthenticatedAction(action)
          \/ HandleLoginForBuild
          \/ HandleContinueAnonymously
          \/ LoginSucceeds
          \/ AuthInfoShown
          \/ PostLoginEffect
          \/ AuthRender
          \/ PendingTimerFires]_vars
    /\ WF_vars(PostLoginEffect)
    /\ WF_vars(AuthRender)
    /\ WF_vars(PendingTimerFires)

\* C30: a save or export of a visitor who is not logged in stores the
\* page's Build as pending, and once that visitor has logged in and is
\* back on the page, the action is eventually executed on the stored Build
\* with the storage emptied.
C30_PendingActionExecuted ==
    /\ [][\A action \in {"save", "export"} :
             (~auth.user /\ TriggerAuthenticatedAction(action))
             => (auth'.pendingBuild = auth.build /\ auth'.pendingActionForAuth = action)]_vars
    /\ \A b \in 1..2 : \A action \in {"save", "export"} :
          (auth.user /\ auth.fromLogin /\ auth.action = action /\ auth.pendingBuild = b)
          ~> (auth.timer = "fired" /\ auth.pendingBuild = 0
              /\ auth.executed = << <<action, b>> >>)

\* the parts that hold: the Build is stored, the storage is emptied after
\* the login, and the pending action is never executed twice
C30_StoredAndCleared ==
    /\ [][\A action \in {"save", "export"} :
             (~auth.user /\ TriggerAuthenticatedAction(action))
             => (auth'.pendingBuild = auth.build /\ auth'.pendingActionForAuth = action)]_vars
    /\ (auth.user /\ auth.fromLogin /\ auth.pendingBuild # 0) ~> (auth.pendingBuild = 0)
    /\ [][auth.timer \in {"fired", "cleared"} => auth'.timer = auth.timer]_vars

====
